---- MODULE Spec2Model ----
(***************************************************************************)
(* Verification model of gemini-rust.                                      *)
(*                                                                         *)
(*  - the streaming response decoder of GeminiClient::generate_content_    *)
(*    stream (src/src/client.rs), pulled by a caller while the transport   *)
(*    delivers byte chunks, errors and the end of the body;                *)
(*  - the function-call schema bridge of src/src/tools.rs                  *)
(*    (FunctionParameters::object / with_property and                      *)
(*    value_to_function_parameters), and FunctionCall::get;                *)
(*  - the request builder ContentBuilder and the two endpoints of          *)
(*    GeminiClient (src/src/client.rs), used by callers that share one     *)
(*    Gemini handle;                                                       *)
(*  - the serde encodings of Part, GenerationConfig and FunctionParameters *)
(*    and the accessors of GenerationResponse (src/src/models.rs).         *)
(*                                                                         *)
(* Text is a sequence of one-character strings, so that a chunk can be     *)
(* cut at any byte position.  Option<T> is a sequence of length 0 (None)   *)
(* or 1 (Some).                                                            *)
(***************************************************************************)
EXTENDS Integers, Sequences, FiniteSets, TLC

VARIABLES
    arrived,    \* transport: every event the byte stream has received so far
    netClosed,  \* transport: the body has ended, nothing more will arrive
    polled,     \* decoder: number of transport events taken by poll_next
    produced,   \* decoder: per taken event, the elements the map closure built
    inner,      \* decoder: rest of the inner iterator Flatten is draining
    out,        \* caller: the elements received so far, in order
    ended,      \* caller: poll_next has returned None
    splits,     \* transport: where a line was delivered cut in two chunks
    fp,         \* schema: the FunctionParameters value the caller holds
    prevFp,     \* schema: the value before the last schema operation
    lastOp,     \* schema: the last schema operation and its arguments
    base,       \* schema: the value object() or the conversion last returned
    calls,      \* schema: the with_property calls made on base, in order
    nOps,       \* schema: number of schema operations performed
    fcall,      \* arguments: the FunctionCall the caller holds
    lastGet,    \* arguments: the last FunctionCall::get and what it returned
    client,     \* client: the GeminiClient behind the Gemini handle, if built
    builders,   \* client: per call site, the ContentBuilder it holds, if any
    hist,       \* client: per call site, the builder calls made so far
    http,       \* client: per call site, the progress of its execute call
    resp,       \* decoding: the GenerationResponse the caller holds
    probe       \* decoding: the last conversion applied, its input and output

streamVars == <<arrived, netClosed, polled, produced, inner, out, ended, splits>>
schemaVars == <<fp, prevFp, lastOp, base, calls, nOps>>
getVars == <<fcall, lastGet>>
clientVars == <<client, builders, hist, http>>
vars == <<arrived, netClosed, polled, produced, inner, out, ended, splits,
          fp, prevFp, lastOp, base, calls, nOps,
          fcall, lastGet, client, builders, hist, http, resp, probe>>
serdeVars == <<resp, probe>>

(***************************************************************************)
(* Bounds                                                                  *)
(***************************************************************************)
MaxEvents == 3      \* transport events per response body
MaxOps == 3         \* schema operations per run
MaxCalls == 2       \* builder calls on one builder
MaxSharedCalls == 2 \* builder calls of the call sites that share a handle

(***************************************************************************)
(* Option and small sequence helpers                                       *)
(***************************************************************************)
None == <<>>
Some(v) == <<v>>

\* The({e : x \in {v}}) is e with x bound to the value of v
The(S) == CHOOSE r \in S : TRUE

RECURSIVE Concat(_)
Concat(ss) == IF ss = <<>> THEN <<>> ELSE Head(ss) \o Concat(Tail(ss))

IsPrefixOf(p, s) == Len(p) <= Len(s) /\ SubSeq(s, 1, Len(p)) = p

(***************************************************************************)
(* Bytes to text: String::from_utf8_lossy.  The byte alphabet is ASCII     *)
(* plus the byte 0xFF, which is never valid UTF-8 and is replaced by       *)
(* U+FFFD.                                                                 *)
(***************************************************************************)
FromUtf8Lossy(bytes) ==
    [i \in DOMAIN bytes |-> IF bytes[i] = "xFF" THEN "uFFFD" ELSE bytes[i]]

(***************************************************************************)
(* str::lines: split at "\n", drop one "\r" before it, no final empty      *)
(* line after a trailing "\n"; a last line without "\n" is kept as is.     *)
(***************************************************************************)
StripCr(l) ==
    IF l # <<>> /\ l[Len(l)] = "\r" THEN SubSeq(l, 1, Len(l) - 1) ELSE l

RECURSIVE Lines(_)
Lines(text) ==
    LET nls == {i \in DOMAIN text : text[i] = "\n"} IN
    IF text = <<>> THEN <<>>
    ELSE IF nls = {} THEN <<text>>
    ELSE LET i == CHOOSE m \in nls : \A j \in nls : m <= j
         IN <<StripCr(SubSeq(text, 1, i - 1))>> \o Lines(SubSeq(text, i + 1, Len(text)))

(***************************************************************************)
(* str::strip_prefix("data: ") and the sentinel                            *)
(***************************************************************************)
DataPrefix == <<"d", "a", "t", "a", ":", " ">>
DoneSentinel == <<"[", "D", "O", "N", "E", "]">>

\* a variant that accepts the prefix without its trailing space
StripPrefixLoose(line) ==
    IF IsPrefixOf(SubSeq(DataPrefix, 1, 5), line)
    THEN Some(SubSeq(line, 6, Len(line)))
    ELSE None

StripPrefix(line) ==
    IF IsPrefixOf(DataPrefix, line)
    THEN Some(SubSeq(line, Len(DataPrefix) + 1, Len(line)))
    ELSE None

(***************************************************************************)
(* serde_json text parser.  A JSON value is <<tag, payload>>; an object    *)
(* keeps its members as a sequence of <<key, value>> pairs so that a       *)
(* repeated key is still visible to the struct visitor.  The alphabet has  *)
(* no backslash, "." or exponent, so escapes and fractions do not occur.   *)
(***************************************************************************)
JNull == <<"null", 0>>
JBool(b) == <<"bool", b>>
JNum(n) == <<"num", n>>
JStr(s) == <<"str", s>>
JArr(a) == <<"arr", a>>
JObj(m) == <<"obj", m>>
\* a Number that holds a float, written as its shortest decimal literal
JFloat(lit) == <<"float", lit>>

PFail(i) == [ok |-> FALSE, pos |-> i, val |-> JNull]
PDone(i, v) == [ok |-> TRUE, pos |-> i, val |-> v]

IsWs(c) == c \in {" ", "\n", "\r", "\t"}
Digits == <<"0", "1", "2", "3", "4", "5", "6", "7", "8", "9">>
IsDigit(c) == \E d \in DOMAIN Digits : Digits[d] = c
DigitVal(c) == (CHOOSE d \in DOMAIN Digits : Digits[d] = c) - 1
IsControl(c) == c \in {"\n", "\r", "\t"}

RECURSIVE SkipWs(_, _)
SkipWs(s, i) == IF i <= Len(s) /\ IsWs(s[i]) THEN SkipWs(s, i + 1) ELSE i

RECURSIVE ScanString(_, _, _)
ScanString(s, i, acc) ==
    IF i > Len(s) THEN PFail(i)
    ELSE IF s[i] = "\"" THEN PDone(i + 1, JStr(acc))
    ELSE IF IsControl(s[i]) THEN PFail(i)
    ELSE ScanString(s, i + 1, acc \o s[i])

RECURSIVE ScanDigits(_, _, _)
ScanDigits(s, i, acc) ==
    IF i <= Len(s) /\ IsDigit(s[i])
    THEN ScanDigits(s, i + 1, 10 * acc + DigitVal(s[i]))
    ELSE [pos |-> i, n |-> acc]

ScanNumber(s, i, sign) ==
    IF i > Len(s) \/ ~IsDigit(s[i]) THEN PFail(i)
    ELSE IF s[i] = "0" /\ i + 1 <= Len(s) /\ IsDigit(s[i + 1]) THEN PFail(i + 1)
    ELSE LET d == ScanDigits(s, i, 0) IN PDone(d.pos, JNum(sign * d.n))

ScanLiteral(s, i, word, v) ==
    IF i + Len(word) - 1 <= Len(s) /\ SubSeq(s, i, i + Len(word) - 1) = word
    THEN PDone(i + Len(word), v)
    ELSE PFail(i)

RECURSIVE ParseValue(_, _), ParseMembers(_, _, _), ParseElements(_, _, _)

ParseValue(s, i0) ==
    LET i == SkipWs(s, i0) IN
    IF i > Len(s) THEN PFail(i)
    ELSE IF s[i] = "{" THEN
        LET j == SkipWs(s, i + 1) IN
        IF j <= Len(s) /\ s[j] = "}" THEN PDone(j + 1, JObj(<<>>))
        ELSE ParseMembers(s, j, <<>>)
    ELSE IF s[i] = "[" THEN
        LET j == SkipWs(s, i + 1) IN
        IF j <= Len(s) /\ s[j] = "]" THEN PDone(j + 1, JArr(<<>>))
        ELSE ParseElements(s, j, <<>>)
    ELSE IF s[i] = "\"" THEN ScanString(s, i + 1, "")
    ELSE IF s[i] = "n" THEN ScanLiteral(s, i, <<"n", "u", "l", "l">>, JNull)
    ELSE IF s[i] = "t" THEN ScanLiteral(s, i, <<"t", "r", "u", "e">>, JBool(TRUE))
    ELSE IF s[i] = "f" THEN ScanLiteral(s, i, <<"f", "a", "l", "s", "e">>, JBool(FALSE))
    ELSE IF s[i] = "-" THEN ScanNumber(s, i + 1, -1)
    ELSE IF IsDigit(s[i]) THEN ScanNumber(s, i, 1)
    ELSE PFail(i)

\* at the first character of a member: "key" : value, then "," or "}"
ParseMembers(s, i0, acc) ==
    LET i == SkipWs(s, i0) IN
    IF i > Len(s) \/ s[i] # "\"" THEN PFail(i)
    ELSE The({
         IF ~k.ok THEN k
         ELSE LET c == SkipWs(s, k.pos) IN
              IF c > Len(s) \/ s[c] # ":" THEN PFail(c)
              ELSE The({
                   IF ~x.ok THEN x
                   ELSE LET e == SkipWs(s, x.pos)
                            acc2 == Append(acc, <<k.val[2], x.val>>)
                        IN IF e > Len(s) THEN PFail(e)
                           ELSE IF s[e] = "}" THEN PDone(e + 1, JObj(acc2))
                           ELSE IF s[e] = "," THEN ParseMembers(s, e + 1, acc2)
                           ELSE PFail(e)
                   : x \in {ParseValue(s, c + 1)}})
         : k \in {ScanString(s, i + 1, "")}})

\* at the first character of an element: value, then "," or "]"
ParseElements(s, i0, acc) ==
    The({
    IF ~x.ok THEN x
    ELSE LET e == SkipWs(s, x.pos)
             acc2 == Append(acc, x.val)
         IN IF e > Len(s) THEN PFail(e)
            ELSE IF s[e] = "]" THEN PDone(e + 1, JArr(acc2))
            ELSE IF s[e] = "," THEN ParseElements(s, e + 1, acc2)
            ELSE PFail(e)
    : x \in {ParseValue(s, i0)}})

\* serde_json::from_str: one value, then only whitespace up to the end
ParseJson(s) ==
    The({
    IF ~x.ok THEN x
    ELSE IF SkipWs(s, x.pos) <= Len(s) THEN PFail(SkipWs(s, x.pos))
    ELSE x
    : x \in {ParseValue(s, 1)}})

(***************************************************************************)
(* serde_json::Value: objects are maps from key to value (a repeated key   *)
(* keeps its last value).                                                  *)
(***************************************************************************)
RECURSIVE PairsToMap(_)
PairsToMap(ps) ==
    IF ps = <<>> THEN <<>>
    ELSE LET n == Len(ps)
             init == PairsToMap(SubSeq(ps, 1, n - 1))
         IN (ps[n][1] :> ps[n][2]) @@ init

RECURSIVE ToValue(_)
ToValue(j) ==
    IF j[1] = "arr" THEN JArr([i \in DOMAIN j[2] |-> ToValue(j[2][i])])
    ELSE IF j[1] = "obj"
         THEN JObj(PairsToMap([i \in DOMAIN j[2] |-> <<j[2][i][1], ToValue(j[2][i][2])>>]))
         ELSE j

(***************************************************************************)
(* Derived Deserialize implementations of the response types               *)
(***************************************************************************)
TString == [k |-> "string"]
TI32 == [k |-> "i32"]
TF32 == [k |-> "f32"]
TValue == [k |-> "value"]
TRole == [k |-> "role"]
TPart == [k |-> "part"]
TVec(ty) == [k |-> "vec", of |-> ty]
TOpt(ty) == [k |-> "opt", of |-> ty]
TStruct(n) == [k |-> "struct", name |-> n]

\* #[serde(rename_all = "lowercase")] enum Role
RoleNames == {"user", "model", "function"}

\* the fields of each struct (and struct variant), in declaration order
StructFields(name) ==
    CASE name = "GenerationResponse" ->
            << <<"candidates", TVec(TStruct("Candidate"))>>,
               <<"prompt_feedback", TOpt(TStruct("PromptFeedback"))>>,
               <<"usage_metadata", TOpt(TStruct("UsageMetadata"))>> >>
      [] name = "Candidate" ->
            << <<"content", TStruct("Content")>>,
               <<"safety_ratings", TOpt(TVec(TStruct("SafetyRating")))>>,
               <<"citation_metadata", TOpt(TStruct("CitationMetadata"))>>,
               <<"finish_reason", TOpt(TString)>>,
               <<"usage_metadata", TOpt(TStruct("UsageMetadata"))>> >>
      [] name = "Content" ->
            << <<"parts", TVec(TPart)>>, <<"role", TOpt(TRole)>> >>
      [] name = "PromptFeedback" ->
            << <<"safety_ratings", TVec(TStruct("SafetyRating"))>>,
               <<"block_reason", TOpt(TString)>> >>
      [] name = "UsageMetadata" ->
            << <<"prompt_token_count", TI32>>,
               <<"candidates_token_count", TI32>>,
               <<"total_token_count", TI32>> >>
      [] name = "SafetyRating" ->
            << <<"category", TString>>, <<"probability", TString>> >>
      [] name = "CitationMetadata" ->
            << <<"citation_sources", TVec(TStruct("CitationSource"))>> >>
      [] name = "CitationSource" ->
            << <<"uri", TOpt(TString)>>, <<"title", TOpt(TString)>>,
               <<"start_index", TOpt(TI32)>>, <<"end_index", TOpt(TI32)>>,
               <<"license", TOpt(TString)>>,
               <<"publication_date", TOpt(TString)>> >>
      [] name = "FunctionCall" ->
            << <<"name", TString>>, <<"args", TValue>> >>
      [] name = "FunctionResponse" ->
            << <<"name", TString>>, <<"response", TOpt(TValue)>> >>
      [] name = "GenerationConfig" ->
            << <<"temperature", TOpt(TF32)>>, <<"top_p", TOpt(TF32)>>,
               <<"top_k", TOpt(TI32)>>, <<"max_output_tokens", TOpt(TI32)>>,
               <<"candidate_count", TOpt(TI32)>>,
               <<"stop_sequences", TOpt(TVec(TString))>>,
               <<"response_mime_type", TOpt(TString)>>,
               <<"response_schema", TOpt(TValue)>> >>
      [] name = "Part::Text" ->
            << <<"text", TString>> >>
      [] name = "Part::FunctionCall" ->
            << <<"functionCall", TStruct("FunctionCall")>> >>
      [] name = "Part::FunctionResponse" ->
            << <<"functionResponse", TStruct("FunctionResponse")>> >>

\* the variants of the untagged enum Part, in declaration order
PartVariants == <<"Part::Text", "Part::FunctionCall", "Part::FunctionResponse">>

DOk(v) == [ok |-> TRUE, val |-> v]
DErr == [ok |-> FALSE, val |-> "error"]

I32Max == 2147483647
I32Min == (-I32Max) - 1

RECURSIVE De(_, _), DeStruct(_, _), DeUntagged(_, _)

\* a derived struct visitor: a map (unknown keys ignored, a repeated known
\* key is an error, a missing field is None for Option and an error
\* otherwise) or a sequence holding every field in order
DeStruct(name, j) ==
    LET fields == StructFields(name)
        pairs == IF j[1] = "obj" THEN j[2]
                 ELSE [i \in DOMAIN fields |-> <<fields[i][1], j[2][i]>>]
        At(f) == {i \in DOMAIN pairs : pairs[i][1] = f}
        Field(i) ==
            LET f == fields[i][1]
                ty == fields[i][2]
            IN IF At(f) = {}
               THEN (IF ty.k = "opt" THEN DOk(None) ELSE DErr)
               ELSE De(ty, pairs[CHOOSE p \in At(f) : TRUE][2])
    IN IF j[1] \notin {"obj", "arr"} THEN DErr
       ELSE IF j[1] = "arr" /\ Len(j[2]) # Len(fields) THEN DErr
       ELSE IF \E i \in DOMAIN fields : Cardinality(At(fields[i][1])) > 1 THEN DErr
       ELSE IF \E i \in DOMAIN fields : ~Field(i).ok THEN DErr
       ELSE DOk([f \in {fields[i][1] : i \in DOMAIN fields} |->
                    Field(CHOOSE i \in DOMAIN fields : fields[i][1] = f).val])

\* a variant in which the last variant that deserializes wins
RECURSIVE DeUntaggedLast(_, _)
DeUntaggedLast(variants, j) ==
    IF variants = <<>> THEN DErr
    ELSE LET last == variants[Len(variants)]
             r == DeStruct(last, j)
         IN IF r.ok THEN DOk([variant |-> last, fields |-> r.val])
            ELSE DeUntaggedLast(SubSeq(variants, 1, Len(variants) - 1), j)

\* #[serde(untagged)]: the first variant that deserializes wins
DeUntagged(variants, j) ==
    IF variants = <<>> THEN DErr
    ELSE LET r == DeStruct(Head(variants), j) IN
         IF r.ok THEN DOk([variant |-> Head(variants), fields |-> r.val])
         ELSE DeUntagged(Tail(variants), j)

De(ty, j) ==
    CASE ty.k = "string" -> IF j[1] = "str" THEN DOk(j[2]) ELSE DErr
      [] ty.k = "i32" ->
            IF j[1] = "num" /\ j[2] >= I32Min /\ j[2] <= I32Max THEN DOk(j[2]) ELSE DErr
      [] ty.k = "f32" ->
            IF j[1] = "float" THEN DOk(j[2])
            ELSE IF j[1] = "num" THEN DOk(ToString(j[2]) \o ".0")
            ELSE DErr
      [] ty.k = "value" -> DOk(ToValue(j))
      [] ty.k = "role" ->
            IF j[1] = "str" /\ j[2] \in RoleNames THEN DOk(j[2]) ELSE DErr
      [] ty.k = "part" -> DeUntagged(PartVariants, j)
      [] ty.k = "opt" ->
            IF j[1] = "null" THEN DOk(None)
            ELSE The({IF r.ok THEN DOk(Some(r.val)) ELSE DErr : r \in {De(ty.of, j)}})
      [] ty.k = "vec" ->
            IF j[1] # "arr" THEN DErr
            ELSE The({IF \E i \in DOMAIN rs : ~rs[i].ok THEN DErr
                      ELSE DOk([i \in DOMAIN rs |-> rs[i].val])
                      : rs \in {[i \in DOMAIN j[2] |-> De(ty.of, j[2][i])]}})
      [] ty.k = "struct" -> DeStruct(ty.name, j)

(***************************************************************************)
(* Elements of the decoded sequence: Result<GenerationResponse, Error>     *)
(***************************************************************************)
Ok(response) == <<"Ok", response>>
JsonError == <<"Err", "JsonError">>
HttpError == <<"Err", "HttpError">>
IsOk(element) == element[1] = "Ok"

\* serde_json::from_str::<GenerationResponse>(json_str), wrapped as in
\* the match of client.rs
FromStr(json_str) ==
    The({
    IF ~p.ok THEN JsonError
    ELSE The({IF d.ok THEN Ok(d.val) ELSE JsonError
              : d \in {De(TStruct("GenerationResponse"), p.val)}})
    : p \in {ParseJson(json_str)}})

\* a variant whose loop ends at the first line that fails to parse
RECURSIVE ForLinesBreakOnError(_)
ForLinesBreakOnError(ls) ==
    IF ls = <<>> THEN <<>>
    ELSE LET json_str == StripPrefix(Head(ls)) IN
         IF json_str = None THEN ForLinesBreakOnError(Tail(ls))
         ELSE IF json_str[1] = DoneSentinel THEN ForLinesBreakOnError(Tail(ls))
         ELSE IF FromStr(json_str[1]) = JsonError THEN <<JsonError>>
         ELSE <<FromStr(json_str[1])>> \o ForLinesBreakOnError(Tail(ls))

\* a variant without the sentinel test
RECURSIVE ForLinesNoSentinel(_)
ForLinesNoSentinel(ls) ==
    IF ls = <<>> THEN <<>>
    ELSE LET json_str == StripPrefix(Head(ls)) IN
         IF json_str = None THEN ForLinesNoSentinel(Tail(ls))
         ELSE <<FromStr(json_str[1])>> \o ForLinesNoSentinel(Tail(ls))

\* a variant that pushes nothing for a line that fails to parse
RECURSIVE ForLinesDropErrors(_)
ForLinesDropErrors(ls) ==
    IF ls = <<>> THEN <<>>
    ELSE LET json_str == StripPrefix(Head(ls)) IN
         IF json_str = None THEN ForLinesDropErrors(Tail(ls))
         ELSE IF json_str[1] = DoneSentinel THEN ForLinesDropErrors(Tail(ls))
         ELSE IF FromStr(json_str[1]) = JsonError THEN ForLinesDropErrors(Tail(ls))
         ELSE <<FromStr(json_str[1])>> \o ForLinesDropErrors(Tail(ls))

\* a variant whose loop ends at the sentinel line
RECURSIVE ForLinesBreakAtSentinel(_)
ForLinesBreakAtSentinel(ls) ==
    IF ls = <<>> THEN <<>>
    ELSE LET json_str == StripPrefix(Head(ls)) IN
         IF json_str = None THEN ForLinesBreakAtSentinel(Tail(ls))
         ELSE IF json_str[1] = DoneSentinel THEN <<>>
         ELSE <<FromStr(json_str[1])>> \o ForLinesBreakAtSentinel(Tail(ls))

\* the for loop over text.lines()
RECURSIVE ForLines(_)
ForLines(ls) ==
    IF ls = <<>> THEN <<>>
    ELSE LET json_str == StripPrefix(Head(ls)) IN
         IF json_str = None THEN ForLines(Tail(ls))
         ELSE IF json_str[1] = DoneSentinel THEN ForLines(Tail(ls))
         ELSE <<FromStr(json_str[1])>> \o ForLines(Tail(ls))

\* a variant that reads one line per chunk
MapChunkFirstLine(result) ==
    IF result.ok
    THEN LET ls == Lines(FromUtf8Lossy(result.bytes))
         IN ForLines(IF ls = <<>> THEN <<>> ELSE <<Head(ls)>>)
    ELSE <<HttpError>>

\* the closure given to map: one transport item to the elements it yields
MapChunk(result) ==
    IF result.ok
    THEN ForLines(Lines(FromUtf8Lossy(result.bytes)))
    ELSE <<HttpError>>

(***************************************************************************)
(* The bytes the transport can deliver                                     *)
(***************************************************************************)
NL == <<"\n">>
CRLF == <<"\r", "\n">>

\* {"candidates":[]}
Json0 ==
    << "{", "\"", "c", "a", "n", "d", "i", "d", "a", "t", "e", "s",
       "\"", ":", "[", "]", "}" >>

\* {"candidates":[{"content":{"parts":[]}}]}
Json1 ==
    << "{", "\"", "c", "a", "n", "d", "i", "d", "a", "t", "e", "s",
       "\"", ":", "[", "{", "\"", "c", "o", "n", "t", "e", "n", "t",
       "\"", ":", "{", "\"", "p", "a", "r", "t", "s", "\"", ":", "[",
       "]", "}", "}", "]", "}" >>

\* {"candidates":[{"content":{"parts":[{"text":"hi"}],"role":"model"}}]}
JsonText ==
    << "{", "\"", "c", "a", "n", "d", "i", "d", "a", "t", "e", "s",
       "\"", ":", "[", "{", "\"", "c", "o", "n", "t", "e", "n", "t",
       "\"", ":", "{", "\"", "p", "a", "r", "t", "s", "\"", ":", "[",
       "{", "\"", "t", "e", "x", "t", "\"", ":", "\"", "h", "i", "\"",
       "}", "]", ",", "\"", "r", "o", "l", "e", "\"", ":", "\"", "m",
       "o", "d", "e", "l", "\"", "}", "}", "]", "}" >>

\* valid JSON without the field candidates
JsonNoField ==
    << "{", "}" >>

\* an invalid byte, an empty line, and a line whose prefix lacks the space
Noise ==
    << "xFF", "\n", "\n", "d", "a", "t", "a", ":", "{", "}", "\n" >>

Line0 == DataPrefix \o Json0 \o NL
Line1 == DataPrefix \o Json1 \o NL

ChunkOk == Line0
ChunkDone == DataPrefix \o DoneSentinel \o NL
ChunkBadThenOk == DataPrefix \o JsonNoField \o NL \o Line1
ChunkNoise == Noise
ChunkCrLf == DataPrefix \o DoneSentinel \o CRLF \o DataPrefix \o JsonText

Chunks == {ChunkOk, ChunkDone, ChunkBadThenOk, ChunkNoise, ChunkCrLf}
SplitLines == {Line0, Line1}

\* items of response.bytes_stream(): Result<Bytes, reqwest::Error>
Bytes(b) == [ok |-> TRUE, bytes |-> b]
TransportErr == [ok |-> FALSE, bytes |-> <<>>]

(***************************************************************************)
(* Function-call schema bridge (tools.rs)                                  *)
(***************************************************************************)
\* PropertyDetails constructors
string(description) ==
    [property_type |-> "STRING", description |-> description,
     enum_values |-> None, items |-> None]

number(description) ==
    [property_type |-> "NUMBER", description |-> description,
     enum_values |-> None, items |-> None]

integer(description) ==
    [property_type |-> "INTEGER", description |-> description,
     enum_values |-> None, items |-> None]

boolean(description) ==
    [property_type |-> "BOOLEAN", description |-> description,
     enum_values |-> None, items |-> None]

array(description, items) ==
    [property_type |-> "ARRAY", description |-> description,
     enum_values |-> None, items |-> Some(items)]

enum_type(description, enum_values) ==
    [property_type |-> "STRING", description |-> description,
     enum_values |-> Some(enum_values), items |-> None]

\* FunctionParameters::object()
object ==
    [param_type |-> "OBJECT", properties |-> Some(<<>>), required |-> Some(<<>>)]

\* HashMap::insert
Insert(map, key, value) == [k \in DOMAIN map \cup {key} |-> IF k = key THEN value ELSE map[k]]

\* a variant that pushes the name whatever the flag says
with_property_always_required(self, name, details, required) ==
    LET props == IF self.properties # None
                 THEN Some(Insert(self.properties[1], name, details))
                 ELSE self.properties
        req == IF self.required # None
               THEN Some(Append(self.required[1], name))
               ELSE self.required
    IN [param_type |-> self.param_type, properties |-> props, required |-> req]

\* a variant that pushes a name only when the list does not hold it yet
with_property_dedup(self, name, details, required) ==
    LET props == IF self.properties # None
                 THEN Some(Insert(self.properties[1], name, details))
                 ELSE self.properties
        req == IF required /\ self.required # None
                  /\ \A i \in DOMAIN self.required[1] : self.required[1][i] # name
               THEN Some(Append(self.required[1], name))
               ELSE self.required
    IN [param_type |-> self.param_type, properties |-> props, required |-> req]

\* a variant that takes the name off the list when the flag is not set
with_property_unrequire(self, name, details, required) ==
    LET props == IF self.properties # None
                 THEN Some(Insert(self.properties[1], name, details))
                 ELSE self.properties
        req == IF self.required = None THEN self.required
               ELSE IF required THEN Some(Append(self.required[1], name))
               ELSE Some(SelectSeq(self.required[1], LAMBDA n : n # name))
    IN [param_type |-> self.param_type, properties |-> props, required |-> req]

\* FunctionParameters::with_property(self, name, details, required)
with_property(self, name, details, required) ==
    LET props == IF self.properties # None
                 THEN Some(Insert(self.properties[1], name, details))
                 ELSE self.properties
        req == IF required /\ self.required # None
               THEN Some(Append(self.required[1], name))
               ELSE self.required
    IN [param_type |-> self.param_type, properties |-> props, required |-> req]

\* str::to_uppercase on the type names the model uses
to_uppercase(s) ==
    CASE s = "object" -> "OBJECT"
      [] s = "string" -> "STRING"
      [] s = "integer" -> "INTEGER"
      [] s = "number" -> "NUMBER"
      [] s = "array" -> "ARRAY"
      [] s = "Array" -> "ARRAY"
      [] s = "boolean" -> "BOOLEAN"
      [] s \in {"OBJECT", "STRING", "INTEGER", "NUMBER", "ARRAY", "BOOLEAN"} -> s

\* filter_map(|v| v.as_str().map(String::from)).collect()
RECURSIVE FilterStrings(_)
FilterStrings(arr) ==
    IF arr = <<>> THEN <<>>
    ELSE IF Head(arr)[1] = "str" THEN <<Head(arr)[2]>> \o FilterStrings(Tail(arr))
    ELSE FilterStrings(Tail(arr))

\* obj.get(key).and_then(|t| t.as_str()).unwrap_or(default)
StrOr(obj, key, default) ==
    IF key \in DOMAIN obj /\ obj[key][1] = "str" THEN obj[key][2] ELSE default

RECURSIVE extract_property_details(_)
extract_property_details(value) ==
    IF value[1] # "obj" THEN None
    ELSE LET obj == value[2] IN
         Some([property_type |-> to_uppercase(StrOr(obj, "type", "string")),
               description |-> StrOr(obj, "description", ""),
               enum_values |-> IF "enum" \in DOMAIN obj /\ obj["enum"][1] = "arr"
                               THEN Some(FilterStrings(obj["enum"][2]))
                               ELSE None,
               items |-> IF "items" \in DOMAIN obj
                         THEN extract_property_details(obj["items"])
                         ELSE None])

\* a variant that keeps the type tag as written
value_to_function_parameters_verbatim_type(value) ==
    IF value[1] = "obj"
    THEN LET obj == value[2]
             required == IF "required" \in DOMAIN obj /\ obj["required"][1] = "arr"
                         THEN FilterStrings(obj["required"][2])
                         ELSE <<>>
             props_obj == IF "properties" \in DOMAIN obj /\ obj["properties"][1] = "obj"
                          THEN obj["properties"][2]
                          ELSE <<>>
             kept == {key \in DOMAIN props_obj :
                         extract_property_details(props_obj[key]) # None}
         IN [param_type |-> StrOr(obj, "type", "object"),
             properties |-> Some([key \in kept |->
                                    extract_property_details(props_obj[key])[1]]),
             required |-> Some(required)]
    ELSE [param_type |-> "OBJECT", properties |-> Some(<<>>), required |-> Some(<<>>)]

\* a variant that reads an array input as a list of required names
value_to_function_parameters_array_required(value) ==
    IF value[1] = "obj"
    THEN LET obj == value[2]
             required == IF "required" \in DOMAIN obj /\ obj["required"][1] = "arr"
                         THEN FilterStrings(obj["required"][2])
                         ELSE <<>>
             props_obj == IF "properties" \in DOMAIN obj /\ obj["properties"][1] = "obj"
                          THEN obj["properties"][2]
                          ELSE <<>>
             kept == {key \in DOMAIN props_obj :
                         extract_property_details(props_obj[key]) # None}
         IN [param_type |-> to_uppercase(StrOr(obj, "type", "object")),
             properties |-> Some([key \in kept |->
                                    extract_property_details(props_obj[key])[1]]),
             required |-> Some(required)]
    ELSE [param_type |-> "OBJECT", properties |-> Some(<<>>),
          required |-> Some(IF value[1] = "arr" THEN FilterStrings(value[2]) ELSE <<>>)]

value_to_function_parameters(value) ==
    IF value[1] = "obj"
    THEN LET obj == value[2]
             required == IF "required" \in DOMAIN obj /\ obj["required"][1] = "arr"
                         THEN FilterStrings(obj["required"][2])
                         ELSE <<>>
             props_obj == IF "properties" \in DOMAIN obj /\ obj["properties"][1] = "obj"
                          THEN obj["properties"][2]
                          ELSE <<>>
             kept == {key \in DOMAIN props_obj :
                         extract_property_details(props_obj[key]) # None}
         IN [param_type |-> to_uppercase(StrOr(obj, "type", "object")),
             properties |-> Some([key \in kept |->
                                    extract_property_details(props_obj[key])[1]]),
             required |-> Some(required)]
    ELSE [param_type |-> "OBJECT", properties |-> Some(<<>>), required |-> Some(<<>>)]

(***************************************************************************)
(* Derived Serialize of FunctionParameters and PropertyDetails (tools.rs), *)
(* as serde_json::to_value gives it                                        *)
(***************************************************************************)
\* a variant that writes the fields under their Rust names
RECURSIVE SerializePropertyDetailsNoRename(_)
SerializePropertyDetailsNoRename(self) ==
    JObj(("property_type" :> JStr(self.property_type))
         @@ ("description" :> JStr(self.description))
         @@ (IF self.enum_values # None
             THEN "enum_values" :> JArr([i \in DOMAIN self.enum_values[1] |->
                                          JStr(self.enum_values[1][i])])
             ELSE <<>>)
         @@ (IF self.items # None
             THEN "items" :> SerializePropertyDetailsNoRename(self.items[1])
             ELSE <<>>))

\* PropertyDetails: property_type as "type", description, enum_values as
\* "enum" and items, the last two left out when None
RECURSIVE SerializePropertyDetails(_)
SerializePropertyDetails(self) ==
    JObj(("type" :> JStr(self.property_type))
         @@ ("description" :> JStr(self.description))
         @@ (IF self.enum_values # None
             THEN "enum" :> JArr([i \in DOMAIN self.enum_values[1] |->
                                   JStr(self.enum_values[1][i])])
             ELSE <<>>)
         @@ (IF self.items # None
             THEN "items" :> SerializePropertyDetails(self.items[1])
             ELSE <<>>))

\* FunctionParameters: param_type as "type", properties and required left
\* out when None
SerializeFunctionParameters(self) ==
    JObj(("type" :> JStr(self.param_type))
         @@ (IF self.properties # None
             THEN "properties" :> JObj([key \in DOMAIN self.properties[1] |->
                                         SerializePropertyDetails(self.properties[1][key])])
             ELSE <<>>)
         @@ (IF self.required # None
             THEN "required" :> JArr([i \in DOMAIN self.required[1] |->
                                       JStr(self.required[1][i])])
             ELSE <<>>))

(***************************************************************************)
(* Argument extraction: FunctionCall::get (tools.rs)                       *)
(***************************************************************************)
\* FunctionCall::new(name, args)
FunctionCallNew(name, args) == [name |-> name, args |-> args]

FunctionCallError(message) == <<"Err", "FunctionCallError", message>>

\* the types a caller asks get::<T> for
TF64 == [k |-> "f64"]
TBool == [k |-> "bool"]
RequestedTypes == {TF64, TString, TI32, TBool}

\* what serde's error says when the value does not fit the type
InvalidType == "invalid type"
InvalidValue == "invalid value"

\* serde_json::from_value::<T>(value)
from_value(ty, value) ==
    CASE ty.k = "f64" ->
            IF value[1] = "num" THEN DOk(value[2]) ELSE [ok |-> FALSE, val |-> InvalidType]
      [] ty.k = "string" ->
            IF value[1] = "str" THEN DOk(value[2]) ELSE [ok |-> FALSE, val |-> InvalidType]
      [] ty.k = "bool" ->
            IF value[1] = "bool" THEN DOk(value[2]) ELSE [ok |-> FALSE, val |-> InvalidType]
      [] ty.k = "i32" ->
            IF value[1] # "num" THEN [ok |-> FALSE, val |-> InvalidType]
            ELSE IF value[2] < I32Min \/ value[2] > I32Max
                 THEN [ok |-> FALSE, val |-> InvalidValue]
                 ELSE DOk(value[2])

\* a variant that reports a value of the wrong type as a missing parameter
get_missing_on_mismatch(self, ty, key) ==
    IF self.args[1] = "obj"
    THEN IF key \in DOMAIN self.args[2]
         THEN LET r == from_value(ty, self.args[2][key]) IN
              IF r.ok THEN <<"Ok", r.val>>
              ELSE FunctionCallError("Missing parameter: " \o key)
         ELSE FunctionCallError("Missing parameter: " \o key)
    ELSE FunctionCallError("Arguments are not an object")

\* FunctionCall::get::<T>(&self, key)
get(self, ty, key) ==
    IF self.args[1] = "obj"
    THEN IF key \in DOMAIN self.args[2]
         THEN LET r == from_value(ty, self.args[2][key]) IN
              IF r.ok THEN <<"Ok", r.val>>
              ELSE FunctionCallError("Error deserializing parameter " \o key
                                     \o ": " \o r.val)
         ELSE FunctionCallError("Missing parameter: " \o key)
    ELSE FunctionCallError("Arguments are not an object")

\* the calls a model can issue and the keys a caller can ask for
ArgsInputs ==
    {JNull, JBool(FALSE), JNum(1), JStr("a"), JArr(<<JNum(1)>>), JObj(<<>>),
     JObj([a |-> JNum(1)]),
     JObj([a |-> JStr("s"), b |-> JNum(2)]),
     JObj([a |-> JBool(TRUE), b |-> JNull]),
     JObj([b |-> JObj([a |-> JNum(1)]), c |-> JNum(-3)])}

Keys == {"a", "b", "c"}

NoGet == [done |-> FALSE, ty |-> TString, key |-> "", self |-> FunctionCallNew("", JNull),
          result |-> <<"Ok", 0>>]

\* no conversion has been applied yet
NoProbe == [op |-> "none", input |-> None, output |-> None]
ProbeRec(op, input, output) == [op |-> op, input |-> input, output |-> output]

(***************************************************************************)
(* Content, Message and the tools a request carries (models.rs, tools.rs)  *)
(***************************************************************************)
\* a Role is written by its wire name; Role::System is the role
\* with_system_prompt names
RoleUser == "user"
RoleModel == "model"
RoleFunction == "function"
RoleSystem == "system"

PartText(text) == [variant |-> "Part::Text", fields |-> [text |-> text]]
PartFunctionCall(function_call) ==
    [variant |-> "Part::FunctionCall", fields |-> [functionCall |-> function_call]]
PartFunctionResponse(function_response) ==
    [variant |-> "Part::FunctionResponse", fields |-> [functionResponse |-> function_response]]

\* FunctionResponse::new(name, response)
FunctionResponseNew(name, response) == [name |-> name, response |-> Some(response)]

\* Content::default()
ContentDefault == [parts |-> <<>>, role |-> None]

\* Content::text(text)
ContentText(text) == [parts |-> <<PartText(text)>>, role |-> None]

\* Content::function_response_json(name, response)
function_response_json(name, response) ==
    [parts |-> <<PartFunctionResponse(FunctionResponseNew(name, response))>>,
     role |-> None]

\* a variant that leaves the role as it was
with_role_keep(self, role) == self

\* Content::with_role(self, role)
with_role(self, role) == [self EXCEPT !.role = Some(role)]

\* Message::user, Message::model, Message::function
MessageUser(text) == [content |-> ContentText(text), role |-> RoleUser]
MessageModel(text) == [content |-> ContentText(text), role |-> RoleModel]
MessageFunction(name, response) ==
    [content |-> function_response_json(name, response), role |-> RoleFunction]

\* Tool::new(function_declaration), Tool::google_search()
ToolNew(function_declaration) ==
    [variant |-> "Tool::Function",
     fields |-> [function_declarations |-> <<function_declaration>>]]
google_search ==
    [variant |-> "Tool::GoogleSearch", fields |-> [google_search |-> <<>>]]

\* FunctionDeclaration::new(name, description, parameters)
FunctionDeclarationNew(name, description, parameters) ==
    [name |-> name, description |-> description, parameters |-> parameters]

\* impl Default for GenerationConfig; an f32 is written by its literal
GenerationConfigDefault ==
    [temperature |-> Some("0.7"),
     top_p |-> Some("0.95"),
     top_k |-> Some(40),
     max_output_tokens |-> Some(1024),
     candidate_count |-> Some(1),
     stop_sequences |-> None,
     response_mime_type |-> None,
     response_schema |-> None]

(***************************************************************************)
(* Gemini, GeminiClient and ContentBuilder (client.rs)                     *)
(***************************************************************************)
BASE_URL == "https://generativelanguage.googleapis.com/v1beta/"
DEFAULT_MODEL == "models/gemini-2.0-flash"

\* GeminiClient::new(api_key, model); the reqwest Client holds no state
\* the requests depend on
GeminiClientNew(api_key, model) == [api_key |-> api_key, model |-> model]

\* Gemini::with_model, Gemini::new, Gemini::pro: the handle is the Arc
with_model(api_key, model) == [client |-> GeminiClientNew(api_key, model)]
GeminiNew(api_key) == with_model(api_key, DEFAULT_MODEL)
pro(api_key) == with_model(api_key, "models/gemini-2.0-pro")

\* a variant whose builder points at a client with the default model
ContentBuilderNewDefaultModel(c) ==
    [client |-> GeminiClientNew(c.api_key, DEFAULT_MODEL), contents |-> <<>>,
     generation_config |-> None, tools |-> None, tool_config |-> None]

\* ContentBuilder::new(client)
ContentBuilderNew(c) ==
    [client |-> c, contents |-> <<>>, generation_config |-> None,
     tools |-> None, tool_config |-> None]

\* Gemini::generate_content(&self)
generate_content(self) == ContentBuilderNew(self.client)

with_system_prompt(self, text) ==
    [self EXCEPT !.contents = Append(@, with_role(ContentText(text), RoleSystem))]

with_user_message(self, text) ==
    [self EXCEPT !.contents = Append(@, with_role(ContentText(text), RoleUser))]

with_model_message(self, text) ==
    [self EXCEPT !.contents = Append(@, with_role(ContentText(text), RoleModel))]

with_function_response(self, name, response) ==
    [self EXCEPT !.contents =
        Append(@, with_role(function_response_json(name, response), RoleFunction))]

\* a variant that appends a null response when the string does not parse
with_function_response_str_lenient(self, name, response_str) ==
    LET json == ParseJson(response_str)
        value == IF json.ok THEN ToValue(json.val) ELSE JNull
    IN <<"Ok", [self EXCEPT !.contents =
                  Append(@, with_role(function_response_json(name, value), RoleFunction))]>>

\* with_function_response_str(self, name, response_str): Ok(self) with the
\* parsed value pushed, or the serde_json::Error of from_str
with_function_response_str(self, name, response_str) ==
    LET json == ParseJson(response_str)
    IN IF ~json.ok THEN <<"Err", "serde_json::Error">>
       ELSE <<"Ok", [self EXCEPT !.contents =
                       Append(@, with_role(function_response_json(name, ToValue(json.val)),
                                           RoleFunction))]>>

\* a variant that puts the new item in front
with_message_prepend(self, message) ==
    LET content == message.content IN
    IF content.role # None
    THEN [self EXCEPT !.contents = <<with_role(content, content.role[1])>> \o @]
    ELSE [self EXCEPT !.contents = <<with_role(content, message.role)>> \o @]

\* a variant that always takes the message's role
with_message_message_role(self, message) ==
    [self EXCEPT !.contents = Append(@, with_role(message.content, message.role))]

with_message(self, message) ==
    LET content == message.content IN
    IF content.role # None
    THEN [self EXCEPT !.contents = Append(@, with_role(content, content.role[1]))]
    ELSE [self EXCEPT !.contents = Append(@, with_role(content, message.role))]

RECURSIVE with_messages(_, _)
with_messages(self, messages) ==
    IF messages = <<>> THEN self
    ELSE with_messages(with_message(self, Head(messages)), Tail(messages))

with_generation_config(self, config) ==
    [self EXCEPT !.generation_config = Some(config)]

\* if self.generation_config.is_none() { ... = Some(GenerationConfig::default()) }
InitConfig(self) ==
    IF self.generation_config = None
    THEN [self EXCEPT !.generation_config = Some(GenerationConfigDefault)]
    ELSE self

with_temperature(self, temperature) ==
    [InitConfig(self) EXCEPT !.generation_config[1].temperature = Some(temperature)]

with_top_p(self, top_p) ==
    [InitConfig(self) EXCEPT !.generation_config[1].top_p = Some(top_p)]

\* a variant that starts from the default config on every call
with_top_k_fresh(self, top_k) ==
    [self EXCEPT !.generation_config =
        Some([GenerationConfigDefault EXCEPT !.top_k = Some(top_k)])]

with_top_k(self, top_k) ==
    [InitConfig(self) EXCEPT !.generation_config[1].top_k = Some(top_k)]

with_max_output_tokens(self, max_output_tokens) ==
    [InitConfig(self) EXCEPT
        !.generation_config[1].max_output_tokens = Some(max_output_tokens)]

with_candidate_count(self, candidate_count) ==
    [InitConfig(self) EXCEPT
        !.generation_config[1].candidate_count = Some(candidate_count)]

\* a variant that also clears the response mime type
with_stop_sequences_drop_mime(self, stop_sequences) ==
    [InitConfig(self) EXCEPT
        !.generation_config[1].stop_sequences = Some(stop_sequences),
        !.generation_config[1].response_mime_type = None]

with_stop_sequences(self, stop_sequences) ==
    [InitConfig(self) EXCEPT
        !.generation_config[1].stop_sequences = Some(stop_sequences)]

with_response_mime_type(self, mime_type) ==
    [InitConfig(self) EXCEPT
        !.generation_config[1].response_mime_type = Some(mime_type)]

with_response_schema(self, schema) ==
    [InitConfig(self) EXCEPT
        !.generation_config[1].response_schema = Some(schema)]

\* a variant that keeps only the newest tool
with_tool_replace(self, tool) == [self EXCEPT !.tools = Some(<<tool>>)]

with_tool(self, tool) ==
    LET tools == IF self.tools = None THEN <<>> ELSE self.tools[1]
    IN [self EXCEPT !.tools = Some(Append(tools, tool))]

with_function(self, function) == with_tool(self, ToolNew(function))

with_function_calling_mode(self, mode) ==
    [self EXCEPT !.tool_config =
        Some([function_calling_config |-> Some([mode |-> mode])])]

\* a variant that takes the system items out of contents and submits them
\* as system_instruction
execute_system_instruction(self) ==
    [contents |-> SelectSeq(self.contents, LAMBDA c : c.role # Some(RoleSystem)),
     system_instruction |-> SelectSeq(self.contents, LAMBDA c : c.role = Some(RoleSystem)),
     generation_config |-> self.generation_config,
     safety_settings |-> None,
     tools |-> self.tools,
     tool_config |-> self.tool_config]

\* the GenerateContentRequest execute and execute_stream build
execute(self) ==
    [contents |-> self.contents,
     generation_config |-> self.generation_config,
     safety_settings |-> None,
     tools |-> self.tools,
     tool_config |-> self.tool_config]

\* GeminiClient::build_url(&self, endpoint); parsed is what Url::parse says
build_url(self, endpoint, parsed) ==
    LET url_str == BASE_URL \o self.model \o ":" \o endpoint \o "?key=" \o self.api_key
    IN IF parsed THEN <<"Ok", url_str>> ELSE <<"Err", "RequestError">>

(***************************************************************************)
(* The builder calls a call site can make                                  *)
(***************************************************************************)
\* a method call: the method name and its arguments
Call1(m, x) == <<m, <<x>>>>
Call2(m, x, y) == <<m, <<x, y>>>>

\* what a function returned, as JSON
WeatherJson == JObj([temperature |-> JNum(22)])

\* a message whose content already carries a role
MessageWithContentRole ==
    [content |-> with_role(ContentText("c"), RoleModel), role |-> RoleUser]

\* GenerationConfig { temperature: None, top_p: Some(0.5), ..Default::default() }
ConfigPartial ==
    [GenerationConfigDefault EXCEPT !.temperature = None, !.top_p = Some("0.5")]

WeatherFunction ==
    FunctionDeclarationNew("get_weather", "weather of a place",
                           with_property(object, "a", string("s"), TRUE))

\* the content examples/advanced.rs pushes: Content::default() plus a
\* function-call part
CallContent ==
    [ContentDefault EXCEPT
        !.parts = Append(@, PartFunctionCall(FunctionCallNew("get_weather", JObj(<<>>))))]

ContentCalls ==
    {Call1("with_system_prompt", "s"),
     Call1("with_user_message", "u"),
     Call1("with_model_message", "m"),
     Call2("with_function_response", "get_weather", WeatherJson),
     Call1("with_message", MessageUser("u")),
     Call1("with_message", MessageWithContentRole),
     Call1("with_message", MessageFunction("get_weather", WeatherJson)),
     Call1("with_messages", <<MessageModel("m"), MessageUser("u")>>)}

SetterCalls ==
    {Call1("with_temperature", "0.2"),
     Call1("with_temperature", "0.9"),
     Call1("with_top_p", "0.5"),
     Call1("with_top_k", 10),
     Call1("with_max_output_tokens", 100),
     Call1("with_candidate_count", 2),
     Call1("with_stop_sequences", <<"END">>),
     Call1("with_response_mime_type", "application/json"),
     Call1("with_response_schema", JObj([type |-> JStr("object")]))}

ConfigCalls ==
    {Call1("with_generation_config", GenerationConfigDefault),
     Call1("with_generation_config", ConfigPartial)}

ToolCalls ==
    {Call1("with_tool", google_search),
     Call1("with_function", WeatherFunction),
     Call1("with_function_calling_mode", "ANY"),
     Call1("with_function_calling_mode", "NONE")}

BuilderCalls == ContentCalls \cup SetterCalls \cup ConfigCalls \cup ToolCalls

\* the calls two call sites interleave
SharedCalls ==
    {Call1("with_user_message", "u"), Call1("with_model_message", "m"),
     Call1("with_temperature", "0.2")}

\* {"t":22}
StrObject == << "{", "\"", "t", "\"", ":", "2", "2", "}" >>
\* 22
StrNumber == << "2", "2" >>
\* {"t":22
StrUnclosed == << "{", "\"", "t", "\"", ":", "2", "2" >>
\* {"t":22}}
StrTrailing == << "{", "\"", "t", "\"", ":", "2", "2", "}", "}" >>

\* the strings a caller passes as a function's response
ResponseStrs == {StrObject, StrNumber, StrUnclosed, StrTrailing}

\* the contents a caller pushes onto the public field
PushedContents == {CallContent, with_role(ContentText("p"), RoleUser)}

\* the method call c applied to the builder self
Apply(self, c) ==
    CASE c[1] = "with_system_prompt" -> with_system_prompt(self, c[2][1])
      [] c[1] = "with_user_message" -> with_user_message(self, c[2][1])
      [] c[1] = "with_model_message" -> with_model_message(self, c[2][1])
      [] c[1] = "with_function_response" -> with_function_response(self, c[2][1], c[2][2])
      [] c[1] = "with_message" -> with_message(self, c[2][1])
      [] c[1] = "with_messages" -> with_messages(self, c[2][1])
      [] c[1] = "with_generation_config" -> with_generation_config(self, c[2][1])
      [] c[1] = "with_temperature" -> with_temperature(self, c[2][1])
      [] c[1] = "with_top_p" -> with_top_p(self, c[2][1])
      [] c[1] = "with_top_k" -> with_top_k(self, c[2][1])
      [] c[1] = "with_max_output_tokens" -> with_max_output_tokens(self, c[2][1])
      [] c[1] = "with_candidate_count" -> with_candidate_count(self, c[2][1])
      [] c[1] = "with_stop_sequences" -> with_stop_sequences(self, c[2][1])
      [] c[1] = "with_response_mime_type" -> with_response_mime_type(self, c[2][1])
      [] c[1] = "with_response_schema" -> with_response_schema(self, c[2][1])
      [] c[1] = "with_tool" -> with_tool(self, c[2][1])
      [] c[1] = "with_function" -> with_function(self, c[2][1])
      [] c[1] = "with_function_calling_mode" -> with_function_calling_mode(self, c[2][1])

(***************************************************************************)
(* One execute / execute_stream call and the HTTP exchange behind it       *)
(***************************************************************************)
\* the call sites that share the Gemini handle (each holds a clone)
Sites == {1, 2}

Handles == {GeminiNew("k"), pro("k"), with_model("k2", "models/m")}

Statuses == {200, 299, 300, 500}

\* {"error":1}
JsonErrorBody == << "{", "\"", "e", "r", "r", "o", "r", "\"", ":", "1", "}" >>

Bodies == {<<"o", "o", "p", "s">>, <<"xFF", "!">>, Json0, JsonErrorBody}

\* StatusCode::is_success
is_success(status) == status >= 200 /\ status < 300

ApiError(status_code, message) == <<"Err", "ApiError", status_code, message>>
RequestError == <<"Err", "RequestError">>

\* Ok(Box::pin(stream)): the decoder over response.bytes_stream()
OkStream == <<"Ok", "stream">>

\* a variant that hands a body that is a response message to the caller
error_status_parsed(status, text) ==
    IF ~text.ok THEN HttpError
    ELSE IF IsOk(FromStr(text.bytes)) THEN FromStr(text.bytes)
    ELSE ApiError(status, FromUtf8Lossy(text.bytes))

\* if !status.is_success() { let error_text = response.text().await?; ... }
error_status(status, text) ==
    IF ~text.ok THEN HttpError
    ELSE ApiError(status, FromUtf8Lossy(text.bytes))

\* response.json().await? : a body that cannot be read or decoded is a
\* reqwest::Error
response_json(body) ==
    IF ~body.ok THEN HttpError
    ELSE The({IF IsOk(r) THEN r ELSE HttpError : r \in {FromStr(body.bytes)}})

\* the progress of one call: where its future stands, the requests it has
\* issued and the results it has returned to the caller
Idle ==
    [phase |-> "idle", streaming |-> FALSE, url |-> None, request |-> None,
     nRequests |-> 0, status |-> 0, body |-> None, reported |-> <<>>]

(***************************************************************************)
(* The arguments the caller of the schema bridge can pass                  *)
(***************************************************************************)
Names == {"a", "x"}

Details ==
    {number("n"), string("s"), boolean("b"), array("l", integer("i")),
     enum_type("e", <<"p", "q">>)}

\* {"type":"object","required":["x"],
\*  "properties":{"x":{"type":"integer","description":"d"}}}
SchemaExample ==
    JObj([type |-> JStr("object"),
          required |-> JArr(<<JStr("x")>>),
          properties |-> JObj([x |-> JObj([type |-> JStr("integer"),
                                           description |-> JStr("d")])])])

\* "required" names a property that "properties" does not declare
SchemaRequiredOnly == JObj([required |-> JArr(<<JStr("x")>>)])

\* every member has the wrong JSON type
SchemaWrongTypes ==
    JObj([type |-> JNum(1), required |-> JStr("x"), properties |-> JArr(<<>>)])

\* non-string entries of "required" and "enum", a non-object property
SchemaMixed ==
    JObj([required |-> JArr(<<JStr("x"), JNum(1), JStr("a")>>),
          properties |-> JObj([x |-> JNum(5),
                               a |-> JObj([enum |-> JArr(<<JStr("p"), JNum(1)>>),
                                           items |-> JObj([type |-> JStr("number")])])])])

\* a nested item schema that is not an object
SchemaBadItems ==
    JObj([type |-> JStr("Array"),
          properties |-> JObj([a |-> JObj([type |-> JStr("array"),
                                           items |-> JNum(3)])])])

JsonInputs ==
    {JNull, JBool(TRUE), JNum(1), JStr("object"), JArr(<<JStr("x")>>), JObj(<<>>),
     SchemaExample, SchemaRequiredOnly, SchemaWrongTypes, SchemaMixed, SchemaBadItems}

\* what lastOp records
OpRec(op, name, details, required, value) ==
    [op |-> op, name |-> name, details |-> details, required |-> required,
     value |-> value]

(***************************************************************************)
(* Initial state: the response has status 2xx and the stream has just been *)
(* returned; the schema is a fresh FunctionParameters::object().            *)
(***************************************************************************)
Init ==
    /\ arrived = <<>>
    /\ netClosed = FALSE
    /\ polled = 0
    /\ produced = <<>>
    /\ inner = <<>>
    /\ out = <<>>
    /\ ended = FALSE
    /\ splits = {}
    /\ fp = object
    /\ prevFp = object
    /\ lastOp = OpRec("object", "", string(""), FALSE, JNull)
    /\ base = object
    /\ calls = <<>>
    /\ nOps = 0
    /\ fcall = FunctionCallNew("f", JObj([a |-> JNum(1)]))
    /\ lastGet = NoGet
    /\ client = None
    /\ builders = [i \in Sites |-> None]
    /\ hist = [i \in Sites |-> <<>>]
    /\ http = [i \in Sites |-> Idle]
    /\ resp = None
    /\ probe = NoProbe

(***************************************************************************)
(* Transport: what the HTTP body does while the caller pulls               *)
(***************************************************************************)
\* one chunk of body bytes arrives
Deliver(c) ==
    /\ ~netClosed
    /\ Len(arrived) < MaxEvents
    /\ arrived' = Append(arrived, Bytes(c))
    /\ UNCHANGED <<netClosed, polled, produced, inner, out, ended, splits>>
    /\ UNCHANGED <<schemaVars, getVars, clientVars, serdeVars>>

\* one line arrives cut after its k-th byte, as two consecutive chunks
DeliverSplit(l, k) ==
    /\ ~netClosed
    /\ Len(arrived) + 2 <= MaxEvents
    /\ arrived' = arrived \o <<Bytes(SubSeq(l, 1, k)), Bytes(SubSeq(l, k + 1, Len(l)))>>
    /\ splits' = splits \cup {[at |-> Len(arrived) + 1, k |-> k, line |-> l]}
    /\ UNCHANGED <<netClosed, polled, produced, inner, out, ended>>
    /\ UNCHANGED <<schemaVars, getVars, clientVars, serdeVars>>

\* the body fails: the byte stream holds an Err item.  Nothing in the
\* Stream contract ends a stream after an Err item, so more may follow.
TransportError ==
    /\ ~netClosed
    /\ Len(arrived) < MaxEvents
    /\ arrived' = Append(arrived, TransportErr)
    /\ UNCHANGED <<netClosed, polled, produced, inner, out, ended, splits>>
    /\ UNCHANGED <<schemaVars, getVars, clientVars, serdeVars>>

\* the body ends: once the queued items are taken, the byte stream is over
TransportClose ==
    /\ ~netClosed
    /\ netClosed' = TRUE
    /\ UNCHANGED <<arrived, polled, produced, inner, out, ended, splits>>
    /\ UNCHANGED <<schemaVars, getVars, clientVars, serdeVars>>

(***************************************************************************)
(* Decoder: bytes_stream().map(closure).flatten(), one poll_next           *)
(***************************************************************************)
\* a variant that ends as soon as the body has ended, whatever is queued
RECURSIVE PollNextEarlyEnd(_, _, _)
PollNextEarlyEnd(in, n, prod) ==
    IF in # <<>>
    THEN [yield |-> Some(Head(in)), done |-> FALSE,
          inner |-> Tail(in), polled |-> n, produced |-> prod]
    ELSE IF netClosed
    THEN [yield |-> None, done |-> TRUE,
          inner |-> <<>>, polled |-> n, produced |-> prod]
    ELSE IF n < Len(arrived)
    THEN The({PollNextEarlyEnd(responses, n + 1, Append(prod, responses))
              : responses \in {MapChunk(arrived[n + 1])}})
    ELSE [yield |-> None, done |-> FALSE,
          inner |-> <<>>, polled |-> n, produced |-> prod]

\* Flatten::poll_next: drain the inner iterator; when it is empty take the
\* next transport item and map it; end when the transport has ended;
\* Pending when nothing has arrived.
RECURSIVE PollNext(_, _, _)
PollNext(in, n, prod) ==
    IF in # <<>>
    THEN [yield |-> Some(Head(in)), done |-> FALSE,
          inner |-> Tail(in), polled |-> n, produced |-> prod]
    ELSE IF n < Len(arrived)
    THEN The({PollNext(responses, n + 1, Append(prod, responses))
              : responses \in {MapChunk(arrived[n + 1])}})
    ELSE [yield |-> None, done |-> netClosed,
          inner |-> <<>>, polled |-> n, produced |-> prod]

\* stream.next().await by the caller, who stops at None.  A poll that
\* returns Pending without having taken anything changes nothing.
Pull ==
    \E r \in {PollNext(inner, polled, produced)} :
    /\ ~ended
    /\ r.yield # None \/ r.done \/ r.polled # polled
    /\ inner' = r.inner
    /\ polled' = r.polled
    /\ produced' = r.produced
    /\ out' = out \o r.yield
    /\ ended' = r.done
    /\ UNCHANGED <<arrived, netClosed, splits>>
    /\ UNCHANGED <<schemaVars, getVars, clientVars, serdeVars>>

Next ==
    \/ \E c \in Chunks : Deliver(c)
    \/ \E l \in SplitLines : \E k \in 1..(Len(l) - 1) : DeliverSplit(l, k)
    \/ TransportError
    \/ TransportClose
    \/ Pull

Spec == Init /\ [][Next]_vars

\* ENABLED <<Pull>>_vars: a poll that yields, ends or takes an item
CanPull ==
    \E r \in {PollNext(inner, polled, produced)} :
       ~ended /\ (r.yield # None \/ r.done \/ r.polled # polled)

\* the caller keeps pulling until it receives None: WF_vars(Pull), with
\* ENABLED <<Pull>>_vars written out as CanPull
FairSpec == Spec /\ ([]<>(~CanPull) \/ []<><<Pull>>_vars)

(***************************************************************************)
(* Schema construction by a caller of tools.rs                             *)
(***************************************************************************)
CallObject ==
    /\ nOps < MaxOps
    /\ fp' = object
    /\ prevFp' = fp
    /\ lastOp' = OpRec("object", "", string(""), FALSE, JNull)
    /\ base' = fp'
    /\ calls' = <<>>
    /\ nOps' = nOps + 1
    /\ probe' = NoProbe
    /\ UNCHANGED resp
    /\ UNCHANGED <<streamVars, getVars, clientVars>>

CallWithProperty(name, details, required) ==
    /\ nOps < MaxOps
    /\ fp' = with_property(fp, name, details, required)
    /\ prevFp' = fp
    /\ lastOp' = OpRec("with_property", name, details, required, JNull)
    /\ calls' = Append(calls, [name |-> name, details |-> details, required |-> required])
    /\ nOps' = nOps + 1
    /\ probe' = NoProbe
    /\ UNCHANGED <<base, resp>>
    /\ UNCHANGED <<streamVars, getVars, clientVars>>

CallValueToFunctionParameters(value) ==
    /\ nOps < MaxOps
    /\ fp' = value_to_function_parameters(value)
    /\ prevFp' = fp
    /\ lastOp' = OpRec("value_to_function_parameters", "", string(""), FALSE, value)
    /\ base' = fp'
    /\ calls' = <<>>
    /\ nOps' = nOps + 1
    /\ probe' = NoProbe
    /\ UNCHANGED resp
    /\ UNCHANGED <<streamVars, getVars, clientVars>>

\* value_to_function_parameters(serde_json::to_value(&fp)) on the schema
\* the caller holds
CallRoundTrip ==
    /\ LET wire == SerializeFunctionParameters(fp)
       IN probe' = ProbeRec("schema_round_trip", fp,
                            [wire |-> wire, back |-> value_to_function_parameters(wire)])
    /\ UNCHANGED <<schemaVars, resp>>
    /\ UNCHANGED <<streamVars, getVars, clientVars>>

NextSchema ==
    \/ CallObject
    \/ CallRoundTrip
    \/ \E name \in Names : \E details \in Details : \E required \in BOOLEAN :
          CallWithProperty(name, details, required)
    \/ \E value \in JsonInputs : CallValueToFunctionParameters(value)

SpecSchema == Init /\ [][NextSchema]_vars

(***************************************************************************)
(* A caller that receives function calls and extracts arguments            *)
(***************************************************************************)
ReceiveCall(name, args) ==
    /\ fcall' = FunctionCallNew(name, args)
    /\ lastGet' = NoGet
    /\ UNCHANGED <<streamVars, schemaVars, clientVars, serdeVars>>

CallGet(ty, key) ==
    /\ lastGet' = [done |-> TRUE, ty |-> ty, key |-> key, self |-> fcall,
                   result |-> get(fcall, ty, key)]
    /\ UNCHANGED fcall
    /\ UNCHANGED <<streamVars, schemaVars, clientVars, serdeVars>>

NextGet ==
    \/ \E args \in ArgsInputs : ReceiveCall("f", args)
    \/ \E ty \in RequestedTypes : \E key \in Keys : CallGet(ty, key)

SpecGet == Init /\ [][NextGet]_vars

(***************************************************************************)
(* Call sites that build and submit requests through one Gemini handle     *)
(***************************************************************************)
\* Gemini::new / Gemini::pro / Gemini::with_model
Construct(handle) ==
    /\ client = None
    /\ client' = Some(handle)
    /\ UNCHANGED <<builders, hist, http>>
    /\ UNCHANGED <<streamVars, schemaVars, getVars, serdeVars>>

\* client.generate_content() at call site i
Start(i) ==
    /\ client # None
    /\ builders[i] = None
    /\ http[i].phase = "idle"
    /\ builders' = [builders EXCEPT ![i] = Some(generate_content(client[1]))]
    /\ UNCHANGED <<client, hist, http>>
    /\ UNCHANGED <<streamVars, schemaVars, getVars, serdeVars>>

\* one builder method call at call site i
BuilderCall(i, c) ==
    /\ builders[i] # None
    /\ builders' = [builders EXCEPT ![i] = Some(Apply(@[1], c))]
    /\ hist' = [hist EXCEPT ![i] = Append(@, c)]
    /\ UNCHANGED <<client, http>>
    /\ UNCHANGED <<streamVars, schemaVars, getVars, serdeVars>>

\* builder.with_function_response_str(name, response_str) at call site i:
\* the builder is moved into the call and comes back only inside Ok
CallWithFunctionResponseStr(i, name, response_str) ==
    /\ builders[i] # None
    /\ LET result == with_function_response_str(builders[i][1], name, response_str)
       IN /\ probe' = ProbeRec("with_function_response_str",
                               <<name, response_str>>, <<result[1]>> \o
                               (IF result[1] = "Err" THEN <<result[2]>> ELSE <<>>))
          /\ IF result[1] = "Ok"
             THEN /\ builders' = [builders EXCEPT ![i] = Some(result[2])]
                  /\ hist' = [hist EXCEPT ![i] =
                        Append(@, Call2("with_function_response_str", name, response_str))]
             ELSE /\ builders' = [builders EXCEPT ![i] = None]
                  /\ hist' = [hist EXCEPT ![i] = <<>>]
    /\ UNCHANGED <<client, http, resp>>
    /\ UNCHANGED <<streamVars, schemaVars, getVars>>

\* builder.contents.push(content) by the caller (the field is public)
PushContents(i, content) ==
    /\ builders[i] # None
    /\ builders' = [builders EXCEPT ![i] = Some([@[1] EXCEPT !.contents = Append(@, content)])]
    /\ hist' = [hist EXCEPT ![i] = Append(@, Call1("contents.push", content))]
    /\ UNCHANGED <<client, http>>
    /\ UNCHANGED <<streamVars, schemaVars, getVars, serdeVars>>

\* execute / execute_stream up to the first await: the request is built,
\* the URL is built, and the request is sent unless the URL is rejected
Execute(i, streaming, parsed) ==
    /\ builders[i] # None
    /\ http[i].phase = "idle"
    /\ LET self == builders[i][1]
           request == execute(self)
           url == build_url(self.client,
                            IF streaming THEN "streamGenerateContent" ELSE "generateContent",
                            parsed)
       IN http' = [http EXCEPT ![i] =
                     IF url[1] = "Ok"
                     THEN [Idle EXCEPT !.phase = "sent", !.streaming = streaming,
                                       !.url = Some(url[2]), !.request = Some(request),
                                       !.nRequests = 1]
                     ELSE [Idle EXCEPT !.phase = "done", !.streaming = streaming,
                                       !.request = Some(request),
                                       !.reported = <<RequestError>>]]
    /\ builders' = [builders EXCEPT ![i] = None]
    /\ UNCHANGED <<client, hist>>
    /\ UNCHANGED <<streamVars, schemaVars, getVars, serdeVars>>

\* a variant that sends the request again when send() fails
SendFailsRetry(i) ==
    /\ http[i].phase = "sent"
    /\ http[i].nRequests < 2
    /\ http' = [http EXCEPT ![i].nRequests = @ + 1]
    /\ UNCHANGED <<client, builders, hist>>
    /\ UNCHANGED <<streamVars, schemaVars, getVars, serdeVars>>

\* .send().await? fails
SendFails(i) ==
    /\ http[i].phase = "sent"
    /\ http' = [http EXCEPT ![i].phase = "done", ![i].reported = <<HttpError>>]
    /\ UNCHANGED <<client, builders, hist>>
    /\ UNCHANGED <<streamVars, schemaVars, getVars, serdeVars>>

\* .send().await? returns the response head; on the streaming endpoint a
\* success status returns the stream at once
Respond(i, status) ==
    /\ http[i].phase = "sent"
    /\ http' = [http EXCEPT
                  ![i].status = status,
                  ![i].phase = IF ~is_success(status) THEN "text"
                               ELSE IF http[i].streaming THEN "done" ELSE "json",
                  ![i].reported = IF is_success(status) /\ http[i].streaming
                                  THEN <<OkStream>> ELSE <<>>]
    /\ UNCHANGED <<client, builders, hist>>
    /\ UNCHANGED <<streamVars, schemaVars, getVars, serdeVars>>

\* response.text().await or response.json().await completes: the body was
\* read in full (bytes) or reading it failed (TransportErr)
BodyEnds(i, body) ==
    /\ http[i].phase \in {"text", "json"}
    /\ http' = [http EXCEPT
                  ![i].phase = "done",
                  ![i].body = Some(body),
                  ![i].reported = IF http[i].phase = "text"
                                  THEN <<error_status(http[i].status, body)>>
                                  ELSE <<response_json(body)>>]
    /\ UNCHANGED <<client, builders, hist>>
    /\ UNCHANGED <<streamVars, schemaVars, getVars, serdeVars>>

\* one call site, every builder method
NextBuilder ==
    \/ \E handle \in Handles : Construct(handle)
    \/ Start(1)
    \/ Len(hist[1]) < MaxCalls /\ \E c \in BuilderCalls : BuilderCall(1, c)
    \/ Len(hist[1]) < MaxCalls /\ \E content \in PushedContents : PushContents(1, content)
    \/ Len(hist[1]) < MaxCalls /\ \E response_str \in ResponseStrs :
          CallWithFunctionResponseStr(1, "get_weather", response_str)
    \/ \E streaming \in BOOLEAN : \E parsed \in BOOLEAN : Execute(1, streaming, parsed)

SpecBuilder == Init /\ [][NextBuilder]_vars

SharedLen == Len(hist[1]) + Len(hist[2])

\* two call sites interleaving builder calls and whole HTTP exchanges
NextClient ==
    \/ \E handle \in Handles : Construct(handle)
    \/ \E i \in Sites : Start(i)
    \/ SharedLen < MaxSharedCalls /\ \E i \in Sites : \E c \in SharedCalls : BuilderCall(i, c)
    \/ \E i \in Sites : \E streaming \in BOOLEAN : \E parsed \in BOOLEAN :
          Execute(i, streaming, parsed)
    \/ \E i \in Sites : SendFails(i)
    \/ \E i \in Sites : \E status \in Statuses : Respond(i, status)
    \/ \E i \in Sites : \E b \in Bodies : BodyEnds(i, Bytes(b))
    \/ \E i \in Sites : BodyEnds(i, TransportErr)

SpecClient == Init /\ [][NextClient]_vars

(***************************************************************************)
(* Decoding a Part from a JSON document (models.rs, enum Part)             *)
(***************************************************************************)
FunctionCallDoc == JObj(<< <<"name", JStr("f")>>, <<"args", JObj(<<>>)>> >>)
FunctionResponseDoc == JObj(<< <<"name", JStr("f")>>, <<"response", JNum(1)>> >>)

\* the documents a part is decoded from: one shape, several shapes in
\* either key order, a key of the wrong type, a repeated key, an unknown
\* key, no known key, and values that are not objects
PartDocs ==
    {JObj(<< <<"text", JStr("a")>> >>),
     JObj(<< <<"functionCall", FunctionCallDoc>> >>),
     JObj(<< <<"functionResponse", FunctionResponseDoc>> >>),
     JObj(<< <<"text", JStr("a")>>, <<"functionCall", FunctionCallDoc>> >>),
     JObj(<< <<"functionCall", FunctionCallDoc>>, <<"text", JStr("a")>> >>),
     JObj(<< <<"functionResponse", FunctionResponseDoc>>,
             <<"functionCall", FunctionCallDoc>> >>),
     JObj(<< <<"functionResponse", FunctionResponseDoc>>,
             <<"functionCall", FunctionCallDoc>>, <<"text", JStr("a")>> >>),
     JObj(<< <<"text", JNum(5)>>, <<"functionCall", FunctionCallDoc>> >>),
     JObj(<< <<"text", JStr("a")>>, <<"functionCall", JNum(5)>> >>),
     JObj(<< <<"text", JStr("a")>>, <<"text", JStr("b")>> >>),
     JObj(<< <<"text", JStr("a")>>, <<"text", JStr("b")>>,
             <<"functionResponse", FunctionResponseDoc>> >>),
     JObj(<< <<"text", JStr("a")>>, <<"other", JNum(1)>> >>),
     JObj(<< <<"text", JNull>> >>),
     JObj(<< <<"other", JNum(1)>> >>),
     JObj(<<>>),
     JStr("a"),
     JArr(<<JStr("a")>>),
     JArr(<<FunctionCallDoc>>),
     JArr(<<JStr("a"), JStr("b")>>)}

\* serde_json decodes one part of a content
DecodePart(j) ==
    /\ probe' = ProbeRec("decode_part", j, De(TPart, j))
    /\ UNCHANGED resp
    /\ UNCHANGED <<streamVars, schemaVars, getVars, clientVars>>

(***************************************************************************)
(* Derived Serialize of GenerationConfig (models.rs)                       *)
(***************************************************************************)
\* f32 values that are not finite
NonFinite == {"NaN", "inf", "-inf"}

\* the keys of a map in the order the serializer walks them
RECURSIVE KeySeq(_)
KeySeq(S) ==
    IF S = {} THEN <<>>
    ELSE LET k == CHOOSE x \in S : TRUE IN <<k>> \o KeySeq(S \ {k})

\* a serde_json::Value as the document its text parses to
RECURSIVE ValueToDoc(_)
ValueToDoc(v) ==
    IF v[1] = "arr" THEN JArr([i \in DOMAIN v[2] |-> ValueToDoc(v[2][i])])
    ELSE IF v[1] = "obj"
         THEN LET keys == KeySeq(DOMAIN v[2])
              IN JObj([i \in DOMAIN keys |-> <<keys[i], ValueToDoc(v[2][keys[i]])>>])
         ELSE v

\* the structs every field of which carries
\* #[serde(skip_serializing_if = "Option::is_none")]
SkipsNone(name) == name = "GenerationConfig"

RECURSIVE Ser(_, _), SerStruct(_, _)

SerFields(name, v, keep) ==
    LET fields == StructFields(name)
        kept == {i \in DOMAIN fields : keep \/ v[fields[i][1]] # None}
        RECURSIVE Walk(_)
        Walk(i) ==
            IF i > Len(fields) THEN <<>>
            ELSE (IF i \in kept
                  THEN << <<fields[i][1], Ser(fields[i][2], v[fields[i][1]])>> >>
                  ELSE <<>>) \o Walk(i + 1)
    IN JObj(Walk(1))

\* a variant that writes an unset field as null
SerStructKeepNone(name, v) == SerFields(name, v, TRUE)

\* a derived struct serializer: the fields in declaration order, an unset
\* field left out where the attribute says so
SerStruct(name, v) == SerFields(name, v, ~SkipsNone(name))

\* serde_json writes a float that is not finite as null
Ser(ty, v) ==
    CASE ty.k = "f32" -> IF v \in NonFinite THEN JNull ELSE JFloat(v)
      [] ty.k = "i32" -> JNum(v)
      [] ty.k = "string" -> JStr(v)
      [] ty.k = "value" -> ValueToDoc(v)
      [] ty.k = "vec" -> JArr([i \in DOMAIN v |-> Ser(ty.of, v[i])])
      [] ty.k = "opt" -> IF v = None THEN JNull ELSE Ser(ty.of, v[1])
      [] ty.k = "struct" -> SerStruct(ty.name, v)

\* the configs a caller builds with struct syntax: every field is set in
\* some and unset in others
Configs ==
    {[temperature |-> t, top_p |-> p, top_k |-> k,
      max_output_tokens |-> m,
      candidate_count |-> IF m = None THEN Some(1) ELSE None,
      stop_sequences |-> q,
      response_mime_type |-> IF q = None THEN Some("text/plain") ELSE None,
      response_schema |-> r] :
        t \in {None, Some("0.7"), Some("NaN")},
        p \in {None, Some("0.95"), Some("inf")},
        k \in {None, Some(40)},
        m \in {None, Some(1024)},
        q \in {None, Some(<<"END">>)},
        r \in {None, Some(JNull), Some(JObj([type |-> JStr("object")]))}}

\* serde_json::to_string(&config) followed by serde_json::from_str of the text
RoundTripConfig(config) ==
    /\ LET wire == Ser(TStruct("GenerationConfig"), config)
       IN probe' = ProbeRec("config_round_trip", config,
                            [wire |-> wire, decoded |-> De(TStruct("GenerationConfig"), wire)])
    /\ UNCHANGED resp
    /\ UNCHANGED <<streamVars, schemaVars, getVars, clientVars>>

NextSerde ==
    \/ \E j \in PartDocs : DecodePart(j)
    \/ \E config \in Configs : RoundTripConfig(config)

SpecSerde == Init /\ [][NextSerde]_vars

(***************************************************************************)
(* The accessors of GenerationResponse (models.rs)                         *)
(***************************************************************************)
\* a variant that returns the first text part of the first candidate
text_first_text_part(self) ==
    IF self.candidates = <<>> THEN ""
    ELSE LET texts == SelectSeq(self.candidates[1].content.parts,
                                LAMBDA p : p.variant = "Part::Text")
         IN IF texts = <<>> THEN "" ELSE texts[1].fields.text

\* GenerationResponse::text(&self)
text(self) ==
    IF self.candidates = <<>> THEN ""
    ELSE LET parts == self.candidates[1].content.parts
         IN IF parts = <<>> THEN ""
            ELSE IF parts[1].variant = "Part::Text" THEN parts[1].fields.text
            ELSE ""

\* filter_map over the parts of one content
RECURSIVE FilterFunctionCalls(_)
FilterFunctionCalls(parts) ==
    IF parts = <<>> THEN <<>>
    ELSE (IF Head(parts).variant = "Part::FunctionCall"
          THEN <<Head(parts).fields.functionCall>>
          ELSE <<>>) \o FilterFunctionCalls(Tail(parts))

\* flat_map over the candidates
RECURSIVE FlatMapCandidates(_)
FlatMapCandidates(candidates) ==
    IF candidates = <<>> THEN <<>>
    ELSE FilterFunctionCalls(Head(candidates).content.parts)
         \o FlatMapCandidates(Tail(candidates))

\* GenerationResponse::function_calls(&self)
function_calls(self) == FlatMapCandidates(self.candidates)

CandidateOf(parts) ==
    [content |-> [parts |-> parts, role |-> Some(RoleModel)],
     safety_ratings |-> None, citation_metadata |-> None,
     finish_reason |-> None, usage_metadata |-> None]

ResponseOf(candidates) ==
    [candidates |-> candidates, prompt_feedback |-> None, usage_metadata |-> None]

Call1Part == PartFunctionCall(FunctionCallNew("f", JObj(<<>>)))
Call2Part == PartFunctionCall(FunctionCallNew("g", JObj(<<>>)))
ResponsePart == PartFunctionResponse(FunctionResponseNew("f", JNum(1)))

\* the part lists of a candidate
PartLists ==
    {<<>>, <<PartText("a")>>, <<Call1Part>>, <<Call1Part, PartText("b")>>,
     <<PartText("a"), Call2Part>>, <<ResponsePart, Call2Part, Call1Part>>,
     <<ResponsePart, PartText("b")>>}

\* the responses a caller receives: up to MaxCandidates candidates
MaxCandidates == 2
Responses ==
    {ResponseOf([k \in 1..n |-> CandidateOf(ps[k])]) :
        n \in 0..MaxCandidates, ps \in [1..MaxCandidates -> PartLists]}

\* execute() or the stream hands the caller a response
ReceiveResponse(r) ==
    /\ resp' = Some(r)
    /\ probe' = NoProbe
    /\ UNCHANGED <<streamVars, schemaVars, getVars, clientVars>>

\* response.text()
CallText ==
    /\ resp # None
    /\ probe' = ProbeRec("text", resp[1], text(resp[1]))
    /\ UNCHANGED resp
    /\ UNCHANGED <<streamVars, schemaVars, getVars, clientVars>>

\* response.function_calls()
CallFunctionCalls ==
    /\ resp # None
    /\ probe' = ProbeRec("function_calls", resp[1], function_calls(resp[1]))
    /\ UNCHANGED resp
    /\ UNCHANGED <<streamVars, schemaVars, getVars, clientVars>>

NextResponse ==
    \/ \E r \in Responses : ReceiveResponse(r)
    \/ CallText
    \/ CallFunctionCalls

SpecResponse == Init /\ [][NextResponse]_vars

(***************************************************************************)
(* What the wire format says about a chunk, written without the decoder    *)
(***************************************************************************)
Range(seq) == {seq[i] : i \in DOMAIN seq}

HasDataPrefix(line) ==
    /\ Len(line) >= Len(DataPrefix)
    /\ \A i \in DOMAIN DataPrefix : line[i] = DataPrefix[i]

PayloadOf(line) ==
    [i \in 1..(Len(line) - Len(DataPrefix)) |-> line[i + Len(DataPrefix)]]

IsSentinelLine(line) == PayloadOf(line) = DoneSentinel
IsSignificant(line) == HasDataPrefix(line) /\ ~IsSentinelLine(line)

DataLines(bytes) == SelectSeq(Lines(FromUtf8Lossy(bytes)), HasDataPrefix)
SentinelLines(bytes) == SelectSeq(DataLines(bytes), IsSentinelLine)
SignificantLines(bytes) == SelectSeq(Lines(FromUtf8Lossy(bytes)), IsSignificant)

FailsToParse(payload) ==
    LET p == ParseJson(payload) IN
    ~p.ok \/ ~De(TStruct("GenerationResponse"), p.val).ok

\* the number of elements the transport items 1..n stand for
RECURSIVE ElementCount(_)
ElementCount(n) ==
    IF n = 0 THEN 0
    ELSE ElementCount(n - 1)
         + (IF arrived[n].ok THEN Len(SignificantLines(arrived[n].bytes)) ELSE 1)

\* {"candidates":[]} as a GenerationResponse
EmptyResponse ==
    [candidates |-> <<>>, prompt_feedback |-> None, usage_metadata |-> None]

\* the elements of the two chunks of a line that arrived cut in two
SplitTaken(s) == s.at + 1 <= polled
SplitElements(s) == produced[s.at] \o produced[s.at + 1]
JsonEnd(s) == Len(s.line) - 1

(***************************************************************************)
(* Streaming decoder                                                       *)
(***************************************************************************)
\* C1: every chunk taken from the transport gives exactly one element per
\* line that starts with "data: " and whose rest is not "[DONE]", none for
\* any other line, each element being the parse result of its own line, and
\* the caller receives them in line order within a chunk and chunk order
\* across chunks.
C1_OneElementPerDataLine ==
    /\ Len(produced) = polled
    /\ \A i \in 1..polled :
          arrived[i].ok =>
             LET sig == SignificantLines(arrived[i].bytes) IN
             /\ Len(produced[i]) = Len(sig)
             /\ \A j \in DOMAIN sig : produced[i][j] = FromStr(PayloadOf(sig[j]))
    /\ out \o inner = Concat(produced)

C1_Witness ==
    /\ ended
    /\ Len(out) >= 3
    /\ \E i \in 1..polled : arrived[i] = Bytes(ChunkNoise)
    /\ \E i \in 1..polled : arrived[i] = Bytes(ChunkBadThenOk)

\* C2: a transport error gives exactly one HttpError element, and no
\* element follows an HttpError element in the decoded sequence.
C2_TransportErrorIsFinal ==
    /\ \A i \in 1..polled : ~arrived[i].ok => produced[i] = <<HttpError>>
    /\ \A p \in DOMAIN out : out[p] = HttpError => p = Len(out)

\* C3: a line that fails to parse gives a JsonError for that line only: the
\* other significant lines of its chunk and of every later chunk still have
\* their elements, and the sequence ends only when the transport does, with
\* one element per significant line and per transport error.
C3_ParseFailureIsIsolated ==
    /\ \A i \in 1..polled :
          arrived[i].ok =>
             LET sig == SignificantLines(arrived[i].bytes) IN
             \A j \in DOMAIN sig :
                FailsToParse(PayloadOf(sig[j])) =>
                   /\ Len(produced[i]) = Len(sig)
                   /\ produced[i][j] = JsonError
                   /\ \A m \in DOMAIN sig :
                         ~FailsToParse(PayloadOf(sig[m])) => IsOk(produced[i][m])
                   /\ \A i2 \in (i + 1)..polled :
                         arrived[i2].ok =>
                            Len(produced[i2]) = Len(SignificantLines(arrived[i2].bytes))
    /\ ended => /\ netClosed
                /\ polled = Len(arrived)
                /\ Len(out) = ElementCount(Len(arrived))

C3_Witness ==
    /\ polled >= 2
    /\ arrived[1] = Bytes(ChunkBadThenOk)
    /\ arrived[2] = Bytes(ChunkOk)
    /\ Len(out) = 3
    /\ out[1] = JsonError
    /\ IsOk(out[2])
    /\ IsOk(out[3])

\* C4: a line "data: [DONE]" gives no element, so a chunk gives as many
\* elements as it has prefixed lines that are not the sentinel; the chunks
\* 'data: {"candidates":[]}\n' and 'data: [DONE]\n' followed by the end of
\* the body decode to exactly one successful message.
C4_SentinelYieldsNothing ==
    /\ \A i \in 1..polled :
          arrived[i].ok =>
             Len(produced[i]) =
                Len(DataLines(arrived[i].bytes)) - Len(SentinelLines(arrived[i].bytes))
    /\ (ended /\ arrived = <<Bytes(ChunkOk), Bytes(ChunkDone)>>)
          => out = <<Ok(EmptyResponse)>>

C4_Witness ==
    /\ ended
    /\ arrived = <<Bytes(ChunkOk), Bytes(ChunkDone)>>
    /\ produced = << <<Ok(EmptyResponse)>>, <<>> >>

\* C5 as stated: wherever a 'data: <json>' line is cut in two chunks, the
\* two chunks give a JsonError and no successful message.
C5_EverySplitFailsToParse ==
    \A s \in splits :
       SplitTaken(s) =>
          /\ JsonError \in Range(SplitElements(s))
          /\ \A e \in Range(SplitElements(s)) : ~IsOk(e)

\* C5 amended: when the cut leaves the whole prefix in the first chunk and
\* falls before the end of the JSON text, the two chunks give a JsonError
\* and no successful message.
C5_SplitInsideJsonFailsToParse ==
    \A s \in splits :
       (SplitTaken(s) /\ s.k >= Len(DataPrefix) /\ s.k < JsonEnd(s)) =>
          /\ JsonError \in Range(SplitElements(s))
          /\ \A e \in Range(SplitElements(s)) : ~IsOk(e)

C5_Witness ==
    \E s \in splits :
       /\ SplitTaken(s)
       /\ s.k > Len(DataPrefix)
       /\ s.k < JsonEnd(s)
       /\ SplitElements(s) = <<JsonError>>

\* C6 as stated: wherever a 'data: <json>' line is cut in two chunks, the
\* two chunks give no element at all.
C6_EverySplitIsDropped ==
    \A s \in splits : SplitTaken(s) => SplitElements(s) = <<>>

\* C6 amended: the two chunks give no element exactly when the cut falls
\* inside the "data: " prefix; any other cut leaves an element.
C6_SplitInsidePrefixIsDropped ==
    \A s \in splits :
       SplitTaken(s) => (SplitElements(s) = <<>> <=> s.k < Len(DataPrefix))

C6_Witness ==
    \E s \in splits :
       /\ SplitTaken(s)
       /\ s.k < Len(DataPrefix)
       /\ SplitElements(s) = <<>>
       /\ ended

\* C7: once the transport has closed the caller is eventually given the end
\* of the sequence; by then every element of every delivered chunk has been
\* yielded; and no element is yielded once the transport has closed and
\* been read to its end.
C7_EndsWhenTransportCloses ==
    /\ netClosed ~> ended
    /\ [](ended => /\ netClosed
                   /\ polled = Len(arrived)
                   /\ inner = <<>>
                   /\ out = Concat(produced)
                   /\ Len(out) = ElementCount(Len(arrived)))
    /\ [][(netClosed /\ polled = Len(arrived) /\ inner = <<>>) => out' = out]_vars

C7_Witness ==
    /\ ended
    /\ Len(arrived) = MaxEvents
    /\ Len(out) >= 2

(***************************************************************************)
(* Schema construction                                                     *)
(***************************************************************************)
callA == [name |-> "a", details |-> number("n"), required |-> TRUE]

\* C8: object() is OBJECT with an empty map and an empty required list;
\* with_property maps the name to the details, appends the name to the end
\* of the required list exactly when the flag is set, and leaves the type
\* tag and every other map entry and required entry as they were; so
\* object().with_property("a", number, true) has required ["a"] and maps
\* "a" to a NUMBER entry.
C8_WithPropertyRecords ==
    /\ lastOp.op = "object" =>
          /\ fp.param_type = "OBJECT"
          /\ fp.properties = Some(<<>>)
          /\ fp.required = Some(<<>>)
    /\ (lastOp.op = "with_property" /\ prevFp.properties # None /\ prevFp.required # None) =>
          LET before == prevFp.properties[1]
              after == fp.properties[1]
          IN /\ fp.param_type = prevFp.param_type
             /\ DOMAIN after = DOMAIN before \cup {lastOp.name}
             /\ after[lastOp.name] = lastOp.details
             /\ \A k \in DOMAIN before : k # lastOp.name => after[k] = before[k]
             /\ fp.required[1] = IF lastOp.required
                                 THEN prevFp.required[1] \o <<lastOp.name>>
                                 ELSE prevFp.required[1]
    /\ (base = object /\ calls = <<callA>>) =>
          /\ fp.required = Some(<<"a">>)
          /\ DOMAIN fp.properties[1] = {"a"}
          /\ fp.properties[1]["a"].property_type = "NUMBER"

C8_Witness ==
    /\ base = object
    /\ calls = <<callA>>
    /\ lastOp.op = "with_property"
    /\ fp.required = Some(<<"a">>)

\* C9: with_property does not de-duplicate: the map holds for a name the
\* details of the latest call for it, and the required list holds the name
\* once more for every call made for it with the flag set.
Occurrences(seq, x) == Cardinality({i \in DOMAIN seq : seq[i] = x})
CallsFor(n) == {i \in DOMAIN calls : calls[i].name = n}
LastCallFor(n) == CHOOSE i \in CallsFor(n) : \A j \in CallsFor(n) : j <= i

C9_NoDeduplication ==
    \A n \in Names :
       /\ Occurrences(fp.required[1], n) =
             Occurrences(base.required[1], n)
             + Cardinality({i \in CallsFor(n) : calls[i].required})
       /\ CallsFor(n) # {} =>
             /\ n \in DOMAIN fp.properties[1]
             /\ fp.properties[1][n] = calls[LastCallFor(n)].details

C9_Witness ==
    /\ base = object
    /\ Len(calls) = 2
    /\ calls[1].name = calls[2].name
    /\ calls[1].required /\ calls[2].required
    /\ calls[1].details # calls[2].details
    /\ fp.required = Some(<<calls[1].name, calls[1].name>>)
    /\ fp.properties = Some([n \in {calls[1].name} |-> calls[2].details])

\* C10: in every FunctionParameters value the operations return, every
\* name of the required list is a key of the property map.
C10_RequiredNamesAreProperties ==
    \A i \in DOMAIN fp.required[1] : fp.required[1][i] \in DOMAIN fp.properties[1]

(***************************************************************************)
(* Conversion of a JSON-Schema shaped value                                *)
(***************************************************************************)
IsMember(obj, key, tag) == key \in DOMAIN obj /\ obj[key][1] = tag

StringsOf(arr) ==
    LET strs == SelectSeq(arr, LAMBDA v : v[1] = "str")
    IN [i \in DOMAIN strs |-> strs[i][2]]

RECURSIVE ConvertedBy(_, _)
ConvertedBy(d, v) ==
    /\ v[1] = "obj"
    /\ d.property_type =
          to_uppercase(IF IsMember(v[2], "type", "str") THEN v[2]["type"][2] ELSE "string")
    /\ d.description =
          (IF IsMember(v[2], "description", "str") THEN v[2]["description"][2] ELSE "")
    /\ d.enum_values =
          (IF IsMember(v[2], "enum", "arr") THEN Some(StringsOf(v[2]["enum"][2])) ELSE None)
    /\ IF IsMember(v[2], "items", "obj")
       THEN d.items # None /\ ConvertedBy(d.items[1], v[2]["items"])
       ELSE d.items = None

PropertiesOf(value) ==
    IF IsMember(value[2], "properties", "obj") THEN value[2]["properties"][2] ELSE <<>>

ConvertedHead(value) ==
    /\ fp.param_type =
          to_uppercase(IF IsMember(value[2], "type", "str")
                       THEN value[2]["type"][2] ELSE "object")
    /\ fp.required =
          Some(IF IsMember(value[2], "required", "arr")
               THEN StringsOf(value[2]["required"][2]) ELSE <<>>)
    /\ (value = SchemaExample) =>
          /\ fp.param_type = "OBJECT"
          /\ fp.required = Some(<<"x">>)
          /\ fp.properties = Some([k \in {"x"} |-> integer("d")])

\* C11 as stated: the conversion of a JSON object yields the uppercased
\* type (OBJECT by default), the string entries of "required" in order, and
\* for each entry of "properties" a PropertyDetails built by the rules
\* (type uppercased, STRING by default; description, empty by default; enum
\* values filtered to strings; items converted recursively).
C11_EveryEntryConverted ==
    (lastOp.op = "value_to_function_parameters" /\ lastOp.value[1] = "obj") =>
       /\ ConvertedHead(lastOp.value)
       /\ DOMAIN fp.properties[1] = DOMAIN PropertiesOf(lastOp.value)
       /\ \A k \in DOMAIN fp.properties[1] :
             ConvertedBy(fp.properties[1][k], PropertiesOf(lastOp.value)[k])

\* C11: the conversion of a JSON object yields the uppercased type (OBJECT
\* by default), the string entries of "required" in order, and a
\* PropertyDetails built by the rules for each entry of "properties" whose
\* value is a JSON object; an entry whose value is not an object gets no
\* PropertyDetails, and "items" that is not an object leaves items empty.
C11_ObjectEntriesConverted ==
    (lastOp.op = "value_to_function_parameters" /\ lastOp.value[1] = "obj") =>
       /\ ConvertedHead(lastOp.value)
       /\ DOMAIN fp.properties[1] =
             {k \in DOMAIN PropertiesOf(lastOp.value) :
                 PropertiesOf(lastOp.value)[k][1] = "obj"}
       /\ \A k \in DOMAIN fp.properties[1] :
             ConvertedBy(fp.properties[1][k], PropertiesOf(lastOp.value)[k])

C11_Witness ==
    /\ lastOp.op = "value_to_function_parameters"
    /\ lastOp.value = SchemaMixed
    /\ DOMAIN fp.properties[1] = {"a"}
    /\ fp.properties[1]["a"].enum_values = Some(<<"p">>)
    /\ fp.properties[1]["a"].items = Some(number(""))
    /\ fp.required = Some(<<"x", "a">>)

\* C12: the conversion never fails, and for every input that is not a JSON
\* object (null, boolean, number, string, array) it returns exactly
\* FunctionParameters::object(): type OBJECT, empty map, empty required.
C12_NonObjectGivesEmptyObject ==
    (lastOp.op = "value_to_function_parameters" /\ lastOp.value[1] # "obj") =>
       /\ fp = object
       /\ fp.param_type = "OBJECT"
       /\ fp.properties = Some(<<>>)
       /\ fp.required = Some(<<>>)

C12_Witness ==
    /\ lastOp.op = "value_to_function_parameters"
    /\ lastOp.value = JArr(<<JStr("x")>>)
    /\ fp = object

(***************************************************************************)
(* Argument extraction                                                     *)
(***************************************************************************)
Fits(ty, value) ==
    \/ ty = TF64 /\ value[1] = "num"
    \/ ty = TI32 /\ value[1] = "num"
    \/ ty = TString /\ value[1] = "str"
    \/ ty = TBool /\ value[1] = "bool"

MissingMessages == {"Missing parameter: " \o k : k \in Keys}
DeserializeMessages(key) ==
    {"Error deserializing parameter " \o key \o ": " \o e : e \in {InvalidType, InvalidValue}}

argsA1 == JObj([a |-> JNum(1)])

\* C13: get(key) leaves the FunctionCall as it was and returns: the error
\* "Arguments are not an object" when args is not a JSON object; the error
\* "Missing parameter: <key>" when the object lacks the key; an error
\* "Error deserializing parameter <key>: ..." when the value does not fit
\* the requested type; the typed value otherwise.  The missing-key and the
\* deserialization outcome never carry the same message: on {a:1},
\* get::<f64>("b") is the former and get::<String>("a") the latter.
C13_GetOutcomes ==
    lastGet.done =>
       LET args == lastGet.self.args
           key == lastGet.key
           r == lastGet.result
       IN /\ fcall = lastGet.self
          /\ args[1] # "obj" =>
                r[1] = "Err" /\ r[2] = "FunctionCallError"
                /\ r[3] = "Arguments are not an object"
          /\ (args[1] = "obj" /\ key \notin DOMAIN args[2]) =>
                r[1] = "Err" /\ r[2] = "FunctionCallError"
                /\ r[3] = "Missing parameter: " \o key
          /\ (args[1] = "obj" /\ key \in DOMAIN args[2] /\ ~Fits(lastGet.ty, args[2][key])) =>
                /\ r[1] = "Err" /\ r[2] = "FunctionCallError"
                /\ r[3] \in DeserializeMessages(key)
                /\ r[3] \notin MissingMessages
                /\ r[3] # "Arguments are not an object"
          /\ (args[1] = "obj" /\ key \in DOMAIN args[2] /\ Fits(lastGet.ty, args[2][key])) =>
                r[1] = "Ok" /\ r[2] = args[2][key][2]
          /\ (args = argsA1 /\ key = "b" /\ lastGet.ty = TF64) =>
                r[1] = "Err" /\ r[3] = "Missing parameter: b"
          /\ (args = argsA1 /\ key = "a" /\ lastGet.ty = TString) =>
                r[1] = "Err" /\ r[3] = "Error deserializing parameter a: invalid type"

C13_Witness ==
    /\ lastGet.done
    /\ lastGet.self.args = argsA1
    /\ lastGet.key = "a"
    /\ lastGet.ty = TString
    /\ lastGet.result[1] = "Err"
    /\ lastGet.result[3] \in DeserializeMessages("a")

(***************************************************************************)
(* HTTP status handling and retries                                        *)
(***************************************************************************)
Failed(i) == http[i].phase = "done" /\ http[i].status # 0 /\ ~(http[i].status \in 200..299)

\* C14 as stated: on both endpoints a response with a non-2xx status is
\* surfaced as exactly one ApiError carrying the status code and the full
\* body text; the body is never parsed as a response message, and on the
\* streaming endpoint no stream is returned.
C14_NonSuccessIsApiError ==
    \A i \in Sites :
       /\ (http[i].status # 0 /\ ~(http[i].status \in 200..299) /\ http[i].phase # "done") =>
             http[i].reported = <<>>
       /\ Failed(i) =>
             /\ Len(http[i].reported) = 1
             /\ http[i].reported[1][1] = "Err"
             /\ http[i].reported[1][2] = "ApiError"
             /\ http[i].reported[1][3] = http[i].status
             /\ http[i].body[1].ok
             /\ http[i].reported[1][4] = FromUtf8Lossy(http[i].body[1].bytes)

\* C14: on both endpoints a response with a non-2xx status is surfaced as
\* exactly one error and nothing else: an ApiError carrying the status code
\* and the full body text when the body is read to its end, one HttpError
\* when reading the body fails.  The body is never parsed as a response
\* message, and on the streaming endpoint no stream is returned.
C14_NonSuccessIsOneError ==
    \A i \in Sites :
       /\ (http[i].status # 0 /\ ~(http[i].status \in 200..299) /\ http[i].phase # "done") =>
             http[i].reported = <<>>
       /\ Failed(i) =>
             /\ Len(http[i].reported) = 1
             /\ http[i].reported[1][1] = "Err"
             /\ IF http[i].body[1].ok
                THEN /\ http[i].reported[1][2] = "ApiError"
                     /\ http[i].reported[1][3] = http[i].status
                     /\ http[i].reported[1][4] = FromUtf8Lossy(http[i].body[1].bytes)
                ELSE http[i].reported[1] = <<"Err", "HttpError">>

C14_Witness ==
    \E i \in Sites :
       /\ http[i].streaming
       /\ http[i].phase = "done"
       /\ http[i].status = 500
       /\ http[i].body = Some(Bytes(Json0))
       /\ http[i].reported = <<ApiError(500, Json0)>>

\* C15: a call issues at most one HTTP request and returns at most one
\* result; a failure of URL construction (before any request), of the send,
\* of the status check or of the body ends the call at once with exactly
\* one error, after which the call issues no request and changes no more.
C15_NoRetry ==
    /\ [](\A i \in Sites :
            /\ http[i].nRequests <= 1
            /\ Len(http[i].reported) <= 1
            /\ (http[i].phase = "done") <=> (Len(http[i].reported) = 1)
            /\ (http[i].reported = <<RequestError>>) => http[i].nRequests = 0)
    /\ [][\A i \in Sites :
            /\ http[i].nRequests = 1 => http'[i].nRequests = 1
            /\ http[i].phase = "done" => http'[i] = http[i]]_vars

C15_Witness ==
    \E i \in Sites :
       /\ http[i].phase = "done"
       /\ http[i].status = 0
       /\ http[i].nRequests = 1
       /\ http[i].reported = <<HttpError>>

(***************************************************************************)
(* The request builder                                                     *)
(***************************************************************************)
Roles == {"user", "model", "function", "system"}

Item(parts, role) == [parts |-> parts, role |-> <<role>>]

FunctionResponsePart(name, value) ==
    [variant |-> "Part::FunctionResponse",
     fields |-> [functionResponse |-> [name |-> name, response |-> <<value>>]]]

TextPart(t) == [variant |-> "Part::Text", fields |-> [text |-> t]]

MessageItem(message) ==
    Item(message.content.parts,
         IF message.content.role # <<>> THEN message.content.role[1] ELSE message.role)

\* the JSON value a well-formed response string denotes
ValueOfStr(str) ==
    CASE str = << "{", "\"", "t", "\"", ":", "2", "2", "}" >> -> JObj([t |-> JNum(22)])
      [] str = << "2", "2" >> -> JNum(22)

\* the items one call contributes to contents
ItemsOf(c) ==
    CASE c[1] = "with_system_prompt" -> <<Item(<<TextPart(c[2][1])>>, "system")>>
      [] c[1] = "with_user_message" -> <<Item(<<TextPart(c[2][1])>>, "user")>>
      [] c[1] = "with_model_message" -> <<Item(<<TextPart(c[2][1])>>, "model")>>
      [] c[1] = "with_function_response" ->
            <<Item(<<FunctionResponsePart(c[2][1], c[2][2])>>, "function")>>
      [] c[1] = "with_function_response_str" ->
            <<Item(<<FunctionResponsePart(c[2][1], ValueOfStr(c[2][2]))>>, "function")>>
      [] c[1] = "with_message" -> <<MessageItem(c[2][1])>>
      [] c[1] = "with_messages" -> [k \in DOMAIN c[2][1] |-> MessageItem(c[2][1][k])]
      [] c[1] = "contents.push" -> <<c[2][1]>>
      [] OTHER -> <<>>

RECURSIVE Contribution(_)
Contribution(h) ==
    IF h = <<>> THEN <<>>
    ELSE Contribution(SubSeq(h, 1, Len(h) - 1)) \o ItemsOf(h[Len(h)])

\* per item of Contribution(h), the call it comes from
RECURSIVE Origins(_)
Origins(h) ==
    IF h = <<>> THEN <<>>
    ELSE Origins(SubSeq(h, 1, Len(h) - 1))
         \o [k \in DOMAIN ItemsOf(h[Len(h)]) |-> h[Len(h)][1]]

\* C16: the contents list of a builder, and of the request it submits, is
\* the sequence of the items its calls contributed, in call order: one item
\* with the role and the payload per with_system_prompt, with_user_message,
\* with_model_message, with_function_response and with_message, one item
\* per message in argument order for with_messages.
C16_ContentsInCallOrder ==
    \A i \in Sites :
       /\ builders[i] # None => builders[i][1].contents = Contribution(hist[i])
       /\ http[i].request # None => http[i].request[1].contents = Contribution(hist[i])

C16_Witness ==
    /\ builders[1] # None
    /\ hist[1] = <<Call1("with_messages", <<MessageModel("m"), MessageUser("u")>>),
                   Call1("with_system_prompt", "s")>>
    /\ Len(builders[1][1].contents) = 3
    /\ builders[1][1].contents[1].role = Some("model")
    /\ builders[1][1].contents[2].role = Some("user")
    /\ builders[1][1].contents[3].role = Some("system")

ConfigFields ==
    {"temperature", "top_p", "top_k", "max_output_tokens", "candidate_count",
     "stop_sequences", "response_mime_type", "response_schema"}

ConfigField(b, f) ==
    IF b.generation_config = <<>> THEN <<>> ELSE b.generation_config[1][f]

ListOf(opt) == IF opt = <<>> THEN <<>> ELSE opt[1]

LastCall(h) == h[Len(h)]

\* the call names a value for the field f
SetsField(c, f) ==
    \/ c[1] = "with_" \o f
    \/ c[1] = "with_generation_config" /\ c[2][1][f] # <<>>

IsBuilderStep(i) ==
    /\ builders[i] # None
    /\ builders'[i] # None
    /\ Len(hist'[i]) = Len(hist[i]) + 1

\* C17 as stated: across builder calls the contents list and the tool list
\* only grow by appending, and a generation-config field that holds a value
\* keeps it over every call that does not set that same field.
C17_Monotonic ==
    [][\A i \in Sites : IsBuilderStep(i) =>
          /\ IsPrefixOf(builders[i][1].contents, builders'[i][1].contents)
          /\ IsPrefixOf(ListOf(builders[i][1].tools), ListOf(builders'[i][1].tools))
          /\ \A f \in ConfigFields :
                (ConfigField(builders[i][1], f) # <<>> /\ ~SetsField(LastCall(hist'[i]), f)) =>
                   ConfigField(builders'[i][1], f) = ConfigField(builders[i][1], f)]_vars

\* C17: across builder calls the contents list and the tool list only grow
\* by appending, and a generation-config field that holds a value keeps it
\* over every call other than the setter of that field and
\* with_generation_config, which replaces the whole config.
C17_MonotonicButForReplace ==
    [][\A i \in Sites : IsBuilderStep(i) =>
          /\ IsPrefixOf(builders[i][1].contents, builders'[i][1].contents)
          /\ IsPrefixOf(ListOf(builders[i][1].tools), ListOf(builders'[i][1].tools))
          /\ \A f \in ConfigFields :
                (/\ ConfigField(builders[i][1], f) # <<>>
                 /\ LastCall(hist'[i])[1] # "with_" \o f
                 /\ LastCall(hist'[i])[1] # "with_generation_config") =>
                   ConfigField(builders'[i][1], f) = ConfigField(builders[i][1], f)
          /\ LastCall(hist'[i])[1] = "with_generation_config" =>
                builders'[i][1].generation_config = <<LastCall(hist'[i])[2][1]>>]_vars

C17_Witness ==
    /\ builders[1] # None
    /\ Len(hist[1]) = 2
    /\ hist[1][1] = Call1("with_tool", google_search)
    /\ hist[1][2][1] = "with_function"
    /\ Len(builders[1][1].tools[1]) = 2
    /\ builders[1][1].tools[1][1] = google_search

\* C18 as stated: every content item of a submitted request has exactly
\* one of the roles user, model, function, system, also when the caller has
\* pushed onto the public contents field.
C18_EveryItemHasRole ==
    \A i \in Sites : http[i].request # None =>
       \A k \in DOMAIN http[i].request[1].contents :
          /\ http[i].request[1].contents[k].role # <<>>
          /\ http[i].request[1].contents[k].role[1] \in Roles

\* C18: every content item of a submitted request that a builder method
\* appended has exactly one of the roles user, model, function, system; an
\* item the caller pushed onto the public contents field is submitted as it
\* was pushed, with no role when it was given none.
C18_BuilderItemsHaveRole ==
    \A i \in Sites : http[i].request # None =>
       /\ Len(http[i].request[1].contents) = Len(Origins(hist[i]))
       /\ \A k \in DOMAIN http[i].request[1].contents :
             IF Origins(hist[i])[k] # "contents.push"
             THEN /\ http[i].request[1].contents[k].role # <<>>
                  /\ http[i].request[1].contents[k].role[1] \in Roles
             ELSE http[i].request[1].contents[k] \in PushedContents

C18_Witness ==
    /\ http[1].request # None
    /\ hist[1] = <<Call1("with_user_message", "u"), Call1("contents.push", CallContent)>>
    /\ http[1].request[1].contents[1].role = Some("user")
    /\ http[1].request[1].contents[2].role = None

Setters == {"with_" \o f : f \in ConfigFields}

OnlySetters(h) == \A k \in DOMAIN h : h[k][1] \in Setters

SettersOf(h, f) == {k \in DOMAIN h : h[k][1] = "with_" \o f}

\* the value the last setter of f gave, none when no call set f
LastSet(h, f) ==
    IF SettersOf(h, f) = {} THEN <<>>
    ELSE <<h[CHOOSE k \in SettersOf(h, f) : \A j \in SettersOf(h, f) : j <= k][2][1]>>

\* what GenerationConfig::default() holds for f
DefaultOf(f) ==
    CASE f = "temperature" -> <<"0.7">>
      [] f = "top_p" -> <<"0.95">>
      [] f = "top_k" -> <<40>>
      [] f = "max_output_tokens" -> <<1024>>
      [] f = "candidate_count" -> <<1>>
      [] OTHER -> <<>>

\* C19 as stated: for every sequence of the eight setters the submitted
\* generation config is the one of a builder that holds an always-present
\* struct of optional fields in which each setter sets only its own field.
C19_LazyInitEquivalent ==
    \A i \in Sites : (http[i].request # None /\ OnlySetters(hist[i])) =>
       \A f \in ConfigFields : ConfigField(http[i].request[1], f) = LastSet(hist[i], f)

\* C19: for every sequence of the eight setters the submitted generation
\* config is absent when the sequence is empty, and otherwise holds for each
\* field the value its last setter gave, or the value of
\* GenerationConfig::default() when no setter of the sequence set it.
C19_LazyInitKeepsDefaults ==
    \A i \in Sites : (http[i].request # None /\ OnlySetters(hist[i])) =>
       IF hist[i] = <<>> THEN http[i].request[1].generation_config = <<>>
       ELSE /\ http[i].request[1].generation_config # <<>>
            /\ \A f \in ConfigFields :
                  ConfigField(http[i].request[1], f) =
                     (IF SettersOf(hist[i], f) # {} THEN LastSet(hist[i], f) ELSE DefaultOf(f))

C19_Witness ==
    /\ http[1].request # None
    /\ hist[1] = <<Call1("with_temperature", "0.2"), Call1("with_top_k", 10)>>
    /\ http[1].request[1].generation_config[1].temperature = <<"0.2">>
    /\ http[1].request[1].generation_config[1].top_k = <<10>>
    /\ http[1].request[1].generation_config[1].top_p = <<"0.95">>

(***************************************************************************)
(* Call sites sharing one handle                                           *)
(***************************************************************************)
ExpectedUrl(i) ==
    "https://generativelanguage.googleapis.com/v1beta/" \o client[1].client.model
    \o ":" \o (IF http[i].streaming THEN "streamGenerateContent" ELSE "generateContent")
    \o "?key=" \o client[1].client.api_key

ExpectedConfig(h) ==
    IF \A f \in ConfigFields : SettersOf(h, f) = {} THEN <<>>
    ELSE <<[f \in ConfigFields |->
              IF SettersOf(h, f) # {} THEN LastSet(h, f) ELSE DefaultOf(f)]>>

\* C20: whatever the interleaving of the builder calls and execute calls of
\* the call sites that share a handle, the request a call site submits is
\* determined by the calls made on its own builder, it goes to the URL of
\* the client's key and model, and the client is never modified once built.
C20_SharedClientIsImmutable ==
    /\ [](\A i \in Sites :
            /\ builders[i] # None => builders[i][1].client = client[1].client
            /\ http[i].request # None =>
                  /\ http[i].request[1].contents = Contribution(hist[i])
                  /\ http[i].request[1].generation_config = ExpectedConfig(hist[i])
                  /\ http[i].request[1].tools = <<>>
                  /\ http[i].request[1].tool_config = <<>>
            /\ http[i].url # None => http[i].url[1] = ExpectedUrl(i))
    /\ [][client # None => client' = client]_vars

C20_Witness ==
    /\ client = Some(with_model("k2", "models/m"))
    /\ http[1].url # None
    /\ http[2].url # None
    /\ hist[1] = <<Call1("with_user_message", "u")>>
    /\ hist[2] = <<Call1("with_temperature", "0.2")>>
    /\ http[1].request[1].generation_config = None
    /\ Len(http[2].request[1].contents) = 0

(***************************************************************************)
(* Part decoding                                                           *)
(***************************************************************************)
\* the variants, in declaration order, whose struct visitor accepts j
Matching(j) == {i \in DOMAIN PartVariants : DeStruct(PartVariants[i], j).ok}

Earliest(j) == CHOOSE i \in Matching(j) : \A k \in Matching(j) : i <= k

\* C21: decoding a part tries Text, then FunctionCall, then
\* FunctionResponse, and returns the first that matches: it fails only when
\* none matches, a decoded part is one of the three variants, and a
\* document that matches several decodes as the earliest of them.
C21_FirstMatchingVariant ==
    probe.op = "decode_part" =>
        /\ PartVariants = <<"Part::Text", "Part::FunctionCall", "Part::FunctionResponse">>
        /\ probe.output.ok <=> Matching(probe.input) # {}
        /\ probe.output.ok =>
              /\ probe.output.val.variant = PartVariants[Earliest(probe.input)]
              /\ probe.output.val.fields =
                    DeStruct(PartVariants[Earliest(probe.input)], probe.input).val
              /\ Cardinality({v \in Range(PartVariants) : probe.output.val.variant = v}) = 1

\* a document with a function call and a text, in that key order, has been
\* decoded as the text part
C21_Witness ==
    /\ probe.op = "decode_part"
    /\ probe.input = JObj(<< <<"functionCall", FunctionCallDoc>>, <<"text", JStr("a")>> >>)
    /\ Cardinality(Matching(probe.input)) = 2
    /\ probe.output = DOk(PartText("a"))

(***************************************************************************)
(* GenerationConfig on the wire                                            *)
(***************************************************************************)
ConfigKeys ==
    {"temperature", "top_p", "top_k", "max_output_tokens", "candidate_count",
     "stop_sequences", "response_mime_type", "response_schema"}

WireKeys(wire) == {wire[2][i][1] : i \in DOMAIN wire[2]}

\* a set field whose value JSON writes as null
WrittenAsNull(config, f) ==
    /\ config[f] # None
    /\ \/ f \in {"temperature", "top_p"} /\ config[f][1] \in {"NaN", "inf", "-inf"}
       \/ f = "response_schema" /\ config[f][1][1] = "null"

\* C22 as stated: the round trip reproduces every set field, and the wire
\* form has a key for a field exactly when the field is set.
C22_RoundTripReproducesSetFields ==
    probe.op = "config_round_trip" =>
        /\ probe.output.decoded.ok
        /\ \A f \in ConfigKeys :
              /\ probe.input[f] # None => probe.output.decoded.val[f] = probe.input[f]
              /\ f \in WireKeys(probe.output.wire) <=> probe.input[f] # None

\* C22, amended: the wire form has a key for a field exactly when the field
\* is set; the round trip reproduces every set field but a float that is
\* not finite and a schema that is JSON null, which are written as null and
\* decode as unset; an unset field decodes as unset.
C22_RoundTripButForNull ==
    probe.op = "config_round_trip" =>
        /\ probe.output.decoded.ok
        /\ DOMAIN probe.output.decoded.val = ConfigKeys
        /\ \A f \in ConfigKeys :
              /\ f \in WireKeys(probe.output.wire) <=> probe.input[f] # None
              /\ probe.output.decoded.val[f] =
                    IF WrittenAsNull(probe.input, f) THEN None ELSE probe.input[f]

\* a config with a finite temperature, a stop sequence and a schema set and
\* the other fields unset has made the round trip
C22_Witness ==
    /\ probe.op = "config_round_trip"
    /\ probe.input.temperature = Some("0.7")
    /\ probe.input.stop_sequences = Some(<<"END">>)
    /\ probe.input.response_schema = Some(JObj([type |-> JStr("object")]))
    /\ probe.input.top_p = None /\ probe.input.top_k = None
    /\ probe.input.max_output_tokens = Some(1024)
    /\ WireKeys(probe.output.wire) =
          {"temperature", "max_output_tokens", "stop_sequences", "response_schema"}
    /\ probe.output.decoded.val.temperature = Some("0.7")

(***************************************************************************)
(* with_function_response_str                                              *)
(***************************************************************************)
WellFormedStrs ==
    {<< "{", "\"", "t", "\"", ":", "2", "2", "}" >>, << "2", "2" >>}

\* the call of with_function_response_str at site i returned Ok
StrCallOk(i) ==
    /\ IsBuilderStep(i)
    /\ LastCall(hist'[i])[1] = "with_function_response_str"

\* the builder of site i went into a call that gave no builder back and
\* sent no request
StrCallErr(i) ==
    /\ builders[i] # None
    /\ builders'[i] = None
    /\ http'[i] = http[i]

C23_WitnessOk ==
    /\ builders[1] # None
    /\ Len(hist[1]) = 2
    /\ hist[1][2][1] = "with_function_response_str"
    /\ probe.output = <<"Ok">>
    /\ builders[1][1].contents[2] =
          Item(<<FunctionResponsePart("get_weather", JObj([t |-> JNum(22)]))>>, "function")

IsTextPart(p) == p.variant = "Part::Text"
IsCallPart(p) == p.variant = "Part::FunctionCall"

\* the function calls among the parts of the candidates from the k-th on
RECURSIVE CallsFrom(_, _)
CallsFrom(r, k) ==
    IF k > Len(r.candidates) THEN <<>>
    ELSE LET calls_k == SelectSeq(r.candidates[k].content.parts, IsCallPart)
         IN [n \in DOMAIN calls_k |-> calls_k[n].fields.functionCall] \o CallsFrom(r, k + 1)

\* C24: text() is the text of the first part of the first candidate when
\* that part is a text part and the empty string otherwise;
\* function_calls() is every function-call part of every candidate, in
\* candidate order and then part order; neither changes the response.
C24_Accessors ==
    /\ probe.op \in {"text", "function_calls"} => resp = Some(probe.input)
    /\ probe.op = "text" =>
          LET r == probe.input IN
          probe.output =
             IF /\ Len(r.candidates) >= 1
                /\ Len(r.candidates[1].content.parts) >= 1
                /\ IsTextPart(r.candidates[1].content.parts[1])
             THEN r.candidates[1].content.parts[1].fields.text
             ELSE ""
    /\ probe.op = "function_calls" => probe.output = CallsFrom(probe.input, 1)

\* text() has returned the empty string for a response whose first
\* candidate starts with a function call and goes on with a text, and
\* whose second candidate starts with a text
C24_Witness ==
    /\ probe.op = "text"
    /\ Len(probe.input.candidates) = 2
    /\ probe.input.candidates[1].content.parts = <<Call1Part, PartText("b")>>
    /\ probe.input.candidates[2].content.parts = <<PartText("a")>>
    /\ probe.output = ""

\* function_calls() has returned the calls of two candidates in order
C24_WitnessCalls ==
    /\ probe.op = "function_calls"
    /\ Len(probe.input.candidates) = 2
    /\ probe.input.candidates[1].content.parts = <<PartText("a"), Call2Part>>
    /\ probe.input.candidates[2].content.parts = <<ResponsePart, Call2Part, Call1Part>>
    /\ probe.output = <<FunctionCallNew("g", JObj(<<>>)), FunctionCallNew("g", JObj(<<>>)),
                        FunctionCallNew("f", JObj(<<>>))>>

(***************************************************************************)
(* Lines after the sentinel                                                *)
(***************************************************************************)
LinesOf(bytes) == Lines(FromUtf8Lossy(bytes))

\* how many of the first q lines are significant
SignificantUpTo(ls, q) == Cardinality({m \in 1..q : IsSignificant(ls[m])})

\* the chunk i holds a sentinel line, at line p
SentinelAt(i, p) ==
    /\ arrived[i].ok
    /\ p \in DOMAIN LinesOf(arrived[i].bytes)
    /\ HasDataPrefix(LinesOf(arrived[i].bytes)[p])
    /\ IsSentinelLine(LinesOf(arrived[i].bytes)[p])

\* C25: the sentinel does not end the decoded sequence: every significant
\* line after a sentinel line, in the same chunk or in a later chunk taken
\* from the transport, has its parse result as an element, and the sequence
\* ends only once the transport has closed, with all of them yielded.
C25_LinesAfterSentinelAreYielded ==
    \A i \in 1..polled : \A p \in 1..Len(arrived[i].bytes) :
       SentinelAt(i, p) =>
          LET ls == LinesOf(arrived[i].bytes) IN
          /\ \A q \in (p + 1)..Len(ls) :
                IsSignificant(ls[q]) =>
                   /\ SignificantUpTo(ls, q) <= Len(produced[i])
                   /\ produced[i][SignificantUpTo(ls, q)] = FromStr(PayloadOf(ls[q]))
          /\ \A i2 \in (i + 1)..polled :
                arrived[i2].ok =>
                   LET sig == SignificantLines(arrived[i2].bytes) IN
                   produced[i2] = [k \in DOMAIN sig |-> FromStr(PayloadOf(sig[k]))]
          /\ ended =>
                /\ netClosed
                /\ Len(arrived) = polled
                /\ \A i2 \in i..polled : \A k \in DOMAIN produced[i2] :
                      \E n \in DOMAIN out : out[n] = produced[i2][k]

\* the sentinel came alone in the first chunk and again at the head of the
\* second, whose second line is a message: the caller got that message
\* and then the end
C25_Witness ==
    /\ ended
    /\ arrived = <<Bytes(ChunkDone), Bytes(ChunkCrLf)>>
    /\ SentinelAt(1, 1) /\ SentinelAt(2, 1)
    /\ Len(out) = 1
    /\ IsOk(out[1])

(***************************************************************************)
(* Schema round trip and the required list                                 *)
(***************************************************************************)
\* C26: for a FunctionParameters built from object() by with_property
\* calls, value_to_function_parameters of its serialized form has the same
\* type tag, the same property map (type, description, enum values and
\* nested items of every entry) and the same required list in order.
C26_SchemaRoundTrip ==
    (probe.op = "schema_round_trip" /\ base = object) =>
        /\ probe.input = fp
        /\ probe.output.back.param_type = fp.param_type
        /\ probe.output.back.required = fp.required
        /\ probe.output.back.properties # None
        /\ DOMAIN probe.output.back.properties[1] = DOMAIN fp.properties[1]
        /\ \A n \in DOMAIN fp.properties[1] :
              /\ probe.output.back.properties[1][n].property_type =
                    fp.properties[1][n].property_type
              /\ probe.output.back.properties[1][n].description =
                    fp.properties[1][n].description
              /\ probe.output.back.properties[1][n].enum_values =
                    fp.properties[1][n].enum_values
              /\ probe.output.back.properties[1][n].items = fp.properties[1][n].items

\* a schema with an array property and a required enum property has made
\* the round trip
C26_Witness ==
    /\ probe.op = "schema_round_trip"
    /\ base = object
    /\ Len(calls) = 2
    /\ DOMAIN fp.properties[1] = {"a", "x"}
    /\ fp.properties[1]["a"] = array("l", integer("i"))
    /\ fp.properties[1]["x"] = enum_type("e", <<"p", "q">>)
    /\ fp.required = Some(<<"x">>)
    /\ probe.output.wire[2]["properties"][2]["x"][2]["enum"] = JArr(<<JStr("p"), JStr("q")>>)
    /\ probe.output.back = fp

RequiredCalls == {k \in DOMAIN calls : calls[k].required}

\* C27: with_property never removes anything from the required list: a
\* name added with the flag set stays in the list over every later call,
\* one for the same name without the flag included, and the list of a
\* schema built from object() is as long as the number of calls that had
\* the flag set.
C27_RequiredNeverShrinks ==
    /\ [](/\ \A k \in RequiredCalls : calls[k].name \in Range(fp.required[1])
          /\ Len(fp.required[1]) = Len(base.required[1]) + Cardinality(RequiredCalls)
          /\ base = object => Len(fp.required[1]) = Cardinality(RequiredCalls))
    /\ [][(Len(calls') = Len(calls) + 1) =>
             /\ IsPrefixOf(fp.required[1], fp'.required[1])
             /\ Len(fp'.required[1]) <= Len(fp.required[1]) + 1]_vars

\* a name was added with the flag set and then again without it, and is
\* still in the list
C27_Witness ==
    /\ base = object
    /\ Len(calls) = 2
    /\ calls[1].name = "a" /\ calls[1].required
    /\ calls[2].name = "a" /\ ~calls[2].required
    /\ fp.required = Some(<<"a">>)

(***************************************************************************)
(* with_message, the setters and the submitted request                     *)
(***************************************************************************)
LastItem(b) == b.contents[Len(b.contents)]

\* C28: the item with_message appends carries the role set on the
\* message's content when there is one and the message's own role
\* otherwise, so the content's role wins when the two differ, and the
\* appended item always has a role.
C28_ContentRoleWins ==
    [][\A i \in Sites :
          (IsBuilderStep(i) /\ LastCall(hist'[i])[1] = "with_message") =>
             LET message == LastCall(hist'[i])[2][1] IN
             /\ Len(builders'[i][1].contents) = Len(builders[i][1].contents) + 1
             /\ LastItem(builders'[i][1]).parts = message.content.parts
             /\ LastItem(builders'[i][1]).role # <<>>
             /\ LastItem(builders'[i][1]).role[1] =
                   (IF message.content.role # <<>> THEN message.content.role[1]
                    ELSE message.role)]_vars

\* a message with the user role whose content has the model role has been
\* added, and the item has the model role
C28_Witness ==
    /\ builders[1] # None
    /\ hist[1] # <<>>
    /\ LastCall(hist[1]) = Call1("with_message", MessageWithContentRole)
    /\ MessageWithContentRole.role = "user"
    /\ MessageWithContentRole.content.role = <<"model">>
    /\ LastItem(builders[1][1]).role = <<"model">>

\* the calls of h that name a whole config
ConfigCallsOf(h) == {k \in DOMAIN h : h[k][1] = "with_generation_config"}

LastConfigCall(h) ==
    IF ConfigCallsOf(h) = {} THEN 0
    ELSE CHOOSE k \in ConfigCallsOf(h) : \A j \in ConfigCallsOf(h) : j <= k

\* the calls of h after its last with_generation_config
SinceConfig(h) == SubSeq(h, LastConfigCall(h) + 1, Len(h))

SetterCallsOf(h) == {k \in DOMAIN h : h[k][1] \in Setters}

\* C29: a setter applied to a builder that has a generation config changes
\* its own field only and leaves the other config fields, the contents, the
\* tools and the tool config as they were; so setters of different fields
\* commute and the last setter of a field wins, while
\* with_generation_config replaces the whole config and with it every
\* field set before.
C29_SettersChangeOwnField ==
    /\ [][\A i \in Sites : IsBuilderStep(i) =>
             LET c == LastCall(hist'[i])
                 b == builders[i][1]
                 b2 == builders'[i][1]
             IN /\ (c[1] \in Setters /\ b.generation_config # <<>>) =>
                      /\ \A f \in ConfigFields :
                            ConfigField(b2, f) =
                               (IF c[1] = "with_" \o f THEN <<c[2][1]>> ELSE ConfigField(b, f))
                      /\ b2.contents = b.contents
                      /\ b2.tools = b.tools
                      /\ b2.tool_config = b.tool_config
                /\ c[1] = "with_generation_config" =>
                      /\ b2.generation_config = <<c[2][1]>>
                      /\ b2.contents = b.contents
                      /\ b2.tools = b.tools
                      /\ b2.tool_config = b.tool_config]_vars
    /\ [](\A i \in Sites :
            (builders[i] # None /\ builders[i][1].generation_config # <<>>) =>
               LET b == builders[i][1] IN
               /\ \A c1 \in SetterCalls : \A c2 \in SetterCalls :
                     IF c1[1] # c2[1]
                     THEN Apply(Apply(b, c1), c2) = Apply(Apply(b, c2), c1)
                     ELSE Apply(Apply(b, c1), c2) = Apply(b, c2)
               /\ LastConfigCall(hist[i]) > 0 =>
                     \A f \in ConfigFields :
                        ConfigField(b, f) =
                           (IF SettersOf(SinceConfig(hist[i]), f) # {}
                            THEN LastSet(SinceConfig(hist[i]), f)
                            ELSE hist[i][LastConfigCall(hist[i])][2][1][f]))

\* the temperature was set after a whole config that left it unset: the
\* other fields are those of that config
C29_Witness ==
    /\ builders[1] # None
    /\ hist[1] = <<Call1("with_generation_config", ConfigPartial),
                   Call1("with_temperature", "0.9")>>
    /\ ConfigPartial.temperature = <<>>
    /\ builders[1][1].generation_config =
          <<[ConfigPartial EXCEPT !.temperature = <<"0.9">>]>>

RequestFields == {"contents", "generation_config", "safety_settings", "tools", "tool_config"}

\* the site i submits its request in this step
Submits(i) ==
    /\ builders[i] # None
    /\ http[i].request = None
    /\ http'[i].request # None

====
